---- MODULE Spec2Model ----
(***************************************************************************)
(* Model of the Discord MCP server (src/src/index.ts): the guild and       *)
(* channel resolvers, the forum lookups of the thread tools, the archived  *)
(* thread pagination of search-threads, and the filter / sort / limit      *)
(* pipeline of list-threads and search-threads.                            *)
(*                                                                         *)
(* JavaScript strings are sequences of one-character strings, so that      *)
(* toLowerCase, replace and includes are computed, not assumed.            *)
(***************************************************************************)
EXTENDS Integers, Sequences, FiniteSets, TLC

VARIABLES
  guilds,        \* client.guilds.cache, in insertion order: <<[id, name]>>
  remoteGuilds,  \* guilds client.guilds.fetch can load although they are not cached
  restAvailable, \* whether a REST request (a fetch that misses the cache, a send, a set...) is answered
  channels,      \* every channel and thread of the platform: <<[id, name, type, guildId, parentId, cached]>>
  availableTags, \* forum id -> <<[id, name]>>, the forum's availableTags
  appliedTags,   \* thread id -> <<tag id>>, the thread's appliedTags
  archived,      \* thread id -> BOOLEAN, the thread's archived flag
  pc,            \* "idle" | "archived" (search-threads awaits a batch) | "done"
  inv,           \* the arguments of the invocation in progress (or last finished)
  resolved,      \* what findGuild and the channel lookup of the invocation returned
  allThreads,    \* the Collection allThreads of list-threads / search-threads: <<thread id>>
  before,        \* the pagination cursor of search-threads
  fetchCount,    \* the batch counter of search-threads
  requests,      \* fetchArchived requests of the invocation: <<[before, batch]>> summary (see ArchivedBatch)
  calls,         \* remote calls the invocation has issued, by kind
  out,           \* the result or the error the invocation ends with
  cachedTags,    \* thread id -> <<tag id>>, appliedTags of the client's cached ThreadChannel
  tasks,         \* the add-thread-tags invocations that run concurrently, each suspended at an await
  request        \* request.params of the call in progress: [name, args], args as received

vars == <<guilds, remoteGuilds, restAvailable, channels, availableTags, appliedTags, archived,
          pc, inv, resolved, allThreads, before, fetchCount, requests, calls, out,
          cachedTags, tasks, request>>

world == <<guilds, remoteGuilds, restAvailable, channels, availableTags>>

----------------------------------------------------------------------------
(* JavaScript values and strings *)

\* `undefined`: an optional argument that was not passed.
Undefined == <<"undefined">>

\* !x for a string-or-undefined x: undefined and "" are falsy.
Falsy(x) == x = Undefined \/ x = <<>>

LowerChar(c) ==
  CASE c = "A" -> "a"
    [] c = "B" -> "b"
    [] c = "I" -> "i"
    [] c = "L" -> "l"
    [] OTHER -> c

\* String.prototype.toLowerCase
toLowerCase(s) == [i \in 1..Len(s) |-> LowerChar(s[i])]

\* String.prototype.replace("#", ""): a string pattern replaces its FIRST
\* occurrence, wherever it stands.
replaceHash(s) ==
  IF \E i \in 1..Len(s) : s[i] = "#"
  THEN LET i == CHOOSE k \in 1..Len(s) : s[k] = "#" /\ \A j \in 1..(k-1) : s[j] # "#"
       IN  SubSeq(s, 1, i-1) \o SubSeq(s, i+1, Len(s))
  ELSE s

\* String.prototype.includes
includes(s, q) == \E i \in 0..(Len(s) - Len(q)) : SubSeq(s, i+1, i+Len(q)) = q

\* Array.prototype.map over a sequence
Map(f(_), s) == [i \in 1..Len(s) |-> f(s[i])]

\* Results: a value, or a thrown Error with the data its message is built from.
None == [kind |-> "none"]
Ok(v) == [kind |-> "ok", val |-> v]
Err(code, ident, names, ids) ==
  [kind |-> "error", code |-> code, ident |-> ident, names |-> names, ids |-> ids]
\* a rejected promise of a discord.js fetch: the API answered that the id is
\* unknown (or not a snowflake, or owned by another guild)
Rejected == [kind |-> "rejected", reason |-> "unknown"]
\* a rejected promise of any REST request: no answer, or a 5xx / 403 answer
Unavailable == [kind |-> "rejected", reason |-> "unavailable"]
\* the Error a handler ends with when an awaited REST request outside a try
\* block rejects: it reaches the catch of lines 1070-1079 and is rethrown
ApiError(ident) == Err("DiscordAPIError", ident, <<>>, <<>>)

NameOf(x) == x.name
IdOf(x) == x.id

----------------------------------------------------------------------------
(* The platform *)

GuildIds == {<<"1">>, <<"2">>, <<"3">>}
\* "a" and "A" collide case-insensitively; "1" is also a guild ID.
GuildNames == {<<"a">>, <<"A">>, <<"1">>}

MaxGuilds == 2

RECURSIVE SeqsUpTo(_, _)
\* sequences of length <= n over S without repeated id
SeqsUpTo(S, n) ==
  IF n = 0 THEN {<<>>}
  ELSE LET shorter == SeqsUpTo(S, n-1)
       IN  shorter \cup {Append(s, x) : s \in shorter, x \in S}

DistinctIds(s) == \A i, j \in 1..Len(s) : i # j => s[i].id # s[j].id

GuildCaches ==
  {s \in SeqsUpTo([id : GuildIds, name : GuildNames], MaxGuilds) : DistinctIds(s)}

\* The one guild the bot may belong to without having it cached.
UncachedGuild == [id |-> <<"3">>, name |-> <<"a">>]

Chan(id, name, type, guildId, parentId, cached) ==
  [id |-> id, name |-> name, type |-> type, guildId |-> guildId,
   parentId |-> parentId, cached |-> cached]

NoParent == <<>>

\* Guild 1 has two text channels whose names collide ("a", "A"), a text channel
\* whose name is the ID of another one, forums "a" (the name of a text channel),
\* "b" and "B" (colliding), an uncached forum, a text channel whose name is the
\* ID of forum 1,3, a forum whose name is the ID of text channel 1,0, and
\* threads of forum 1,3.
\* Guild 2 has a text channel and a forum both named "b"; guild 3 a text channel.
ChannelUniverse ==
  << Chan(<<"1","0">>, <<"a">>,     "GuildText",    <<"1">>, NoParent, TRUE),
     Chan(<<"1","1">>, <<"A">>,     "GuildText",    <<"1">>, NoParent, TRUE),
     Chan(<<"1","2">>, <<"2","0">>, "GuildText",    <<"1">>, NoParent, TRUE),
     Chan(<<"1","3">>, <<"a">>,     "GuildForum",   <<"1">>, NoParent, TRUE),
     Chan(<<"1","4">>, <<"b">>,     "GuildForum",   <<"1">>, NoParent, TRUE),
     Chan(<<"1","5">>, <<"B">>,     "GuildForum",   <<"1">>, NoParent, TRUE),
     Chan(<<"1","6">>, <<"c">>,     "GuildForum",   <<"1">>, NoParent, FALSE),
     Chan(<<"1","7">>, <<"1","3">>, "GuildText",    <<"1">>, NoParent, TRUE),
     Chan(<<"1","8">>, <<"1","0">>, "GuildForum",   <<"1">>, NoParent, TRUE),
     Chan(<<"2","0">>, <<"b">>,     "GuildText",    <<"2">>, NoParent, TRUE),
     Chan(<<"2","1">>, <<"b">>,     "GuildForum",   <<"2">>, NoParent, TRUE),
     Chan(<<"3","0">>, <<"a">>,     "GuildText",    <<"3">>, NoParent, TRUE),
     Chan(<<"7","1">>, <<"L","i">>,     "PublicThread", <<"1">>, <<"1","3">>, TRUE),
     Chan(<<"7","2">>, <<"L","i","2">>, "PublicThread", <<"1">>, <<"1","3">>, TRUE),
     Chan(<<"7","3">>, <<"l","i","-">>, "PublicThread", <<"1">>, <<"1","3">>, TRUE),
     Chan(<<"7","4">>, <<"x">>,         "PublicThread", <<"1">>, <<"1","3">>, TRUE),
     Chan(<<"8","1">>, <<"L","i">>,     "PublicThread", <<"1">>, <<"1","4">>, TRUE) >>

Range(s) == {s[i] : i \in 1..Len(s)}

ThreadIds == {c.id : c \in {x \in Range(ChannelUniverse) : x.type = "PublicThread"}}
ForumIds == {c.id : c \in {x \in Range(ChannelUniverse) : x.type = "GuildForum"}}


\* The guilds the bot is a member of: what its token can read.
MemberGuildIds == {g.id : g \in Range(guilds) \cup remoteGuilds}

ChannelById(id) == CHOOSE c \in Range(channels) : c.id = id

\* thread.createdTimestamp: threads 7,2 and 7,3 were created at the same instant.
createdTimestamp(t) ==
  CASE t = <<"7","1">> -> 5
    [] t = <<"7","2">> -> 3
    [] t = <<"7","3">> -> 3
    [] t = <<"7","4">> -> 1
    [] OTHER -> 2

----------------------------------------------------------------------------
(* discord.js lookups *)

\* client.guilds.fetch(id): the cached guild, else the guild the REST API
\* returns, else a rejection.
guildsFetch(id) ==
  IF \E g \in Range(guilds) : g.id = id
  THEN Ok(CHOOSE g \in Range(guilds) : g.id = id)
  ELSE IF ~restAvailable THEN Unavailable
  ELSE IF \E g \in remoteGuilds : g.id = id
       THEN Ok(CHOOSE g \in remoteGuilds : g.id = id)
       ELSE Rejected

\* client.channels.fetch(id): the cached channel (of any cached guild), else
\* over REST any channel the bot can see, of any guild.
channelsFetch(id) ==
  IF \E c \in Range(channels) :
       c.id = id /\ c.cached /\ c.guildId \in {g.id : g \in Range(guilds)}
  THEN Ok(CHOOSE c \in Range(channels) : c.id = id)
  ELSE IF ~restAvailable THEN Unavailable
  ELSE IF \E c \in Range(channels) : c.id = id /\ c.guildId \in MemberGuildIds
  THEN Ok(CHOOSE c \in Range(channels) : c.id = id)
  ELSE Rejected

\* guild.channels.fetch(id): the channel of that id if it is a channel of this
\* guild, from the guild's cache or else over REST; discord.js rejects a
\* channel owned by another guild.
guildChannelsFetch(guild, id) ==
  IF \E c \in Range(channels) : c.id = id /\ c.guildId = guild.id /\ c.cached
  THEN Ok(CHOOSE c \in Range(channels) : c.id = id)
  ELSE IF ~restAvailable THEN Unavailable
  ELSE IF \E c \in Range(channels) : c.id = id /\ c.guildId = guild.id
  THEN Ok(CHOOSE c \in Range(channels) : c.id = id)
  ELSE Rejected

\* guild.channels.cache, in insertion order
guildChannelsCache(guild) ==
  SelectSeq(channels, LAMBDA c : c.guildId = guild.id /\ c.cached)

IsTextChannel(c) == c.type = "GuildText"
IsThreadChannel(c) == c.type = "PublicThread"
\* Mutant of IsForum: any channel of the guild that is not a thread.
IsForumOrText(c) == c.type \in {"GuildForum", "GuildText"}

IsForum(c) == c.type = "GuildForum"

----------------------------------------------------------------------------
(* findGuild, src/src/index.ts 26-68 *)

\* Mutant of guildWithoutIdentifier: `size >= 1` for `size === 1`.
guildWithoutIdentifierAnyCached ==
  IF Len(guilds) >= 1
  THEN Ok(guilds[1])
  ELSE Err("MultipleServers", Undefined, Map(NameOf, guilds), <<>>)

\* Lines 27-39: no identifier. The only cached guild (cache.first()), or the
\* error that lists the names of the cached guilds.
guildWithoutIdentifier ==
  IF Len(guilds) = 1
  THEN Ok(guilds[1])
  ELSE Err("MultipleServers", Undefined, Map(NameOf, guilds), <<>>)

\* Mutant of guildByName: the first match is taken, also among several.
guildByNameFirstMatch(guildIdentifier) ==
  LET matches == SelectSeq(guilds,
                   LAMBDA g : toLowerCase(g.name) = toLowerCase(guildIdentifier))
  IN IF Len(matches) = 0
     THEN Err("ServerNotFound", guildIdentifier, Map(NameOf, guilds), <<>>)
     ELSE Ok(matches[1])

\* Lines 46-65, the catch block: the search by name in the cache.
guildByName(guildIdentifier) ==
  LET matches == SelectSeq(guilds,
                   LAMBDA g : toLowerCase(g.name) = toLowerCase(guildIdentifier))
  IN IF Len(matches) = 0
     THEN Err("ServerNotFound", guildIdentifier, Map(NameOf, guilds), <<>>)
     ELSE IF Len(matches) > 1
     THEN Err("MultipleServersNamed", guildIdentifier,
              Map(NameOf, matches), Map(IdOf, matches))
     ELSE Ok(matches[1])

\* Mutant of findGuild: the fetch is not inside a try block.
findGuildWithoutCatch(guildIdentifier) ==
  IF Falsy(guildIdentifier)
  THEN [fetches |-> 0, res |-> guildWithoutIdentifier]
  ELSE [fetches |-> 1, res |-> guildsFetch(guildIdentifier)]

\* The result, and the number of client.guilds.fetch calls issued.
findGuild(guildIdentifier) ==
  IF Falsy(guildIdentifier)
  THEN [fetches |-> 0, res |-> guildWithoutIdentifier]
  ELSE LET f == guildsFetch(guildIdentifier)
       IN [fetches |-> 1,
           res |-> IF f.kind = "ok" THEN f ELSE guildByName(guildIdentifier)]

----------------------------------------------------------------------------
(* findChannel, src/src/index.ts 71-117 *)

\* The channel-name predicate of the name search (lines 90-92, 509-511, ...).
NameMatches(name, channelIdentifier) ==
  \/ toLowerCase(name) = toLowerCase(channelIdentifier)
  \/ toLowerCase(name) = replaceHash(toLowerCase(channelIdentifier))

\* [guild, channel]: the result of findGuild and the result of findChannel.
findChannel(channelIdentifier, guildIdentifier) ==
  LET g == findGuild(guildIdentifier) IN
  IF g.res.kind # "ok"
  THEN [guild |-> g.res, channel |-> g.res, guildsFetch |-> g.fetches, channelsFetch |-> 0]
  ELSE
    LET guild == g.res.val
        f == channelsFetch(channelIdentifier)
        textChannels == SelectSeq(guildChannelsCache(guild), IsTextChannel)
        found == SelectSeq(textChannels,
                           LAMBDA c : NameMatches(c.name, channelIdentifier))
        r == IF f.kind = "ok"
             THEN IF (IsTextChannel(f.val) /\ f.val.guildId = guild.id)
                     \/ (IsThreadChannel(f.val) /\ f.val.guildId = guild.id)
                  THEN Ok(f.val)
                  ELSE Err("NotTextChannelOrThread", channelIdentifier, <<>>, <<>>)
             ELSE IF Len(found) = 0
                  THEN Err("ChannelNotFound", channelIdentifier, Map(NameOf, textChannels), <<>>)
             ELSE IF Len(found) > 1
                  THEN Err("MultipleChannels", channelIdentifier,
                           Map(NameOf, found), Map(IdOf, found))
             ELSE Ok(found[1])
    IN [guild |-> g.res, channel |-> r, guildsFetch |-> g.fetches, channelsFetch |-> 1]

----------------------------------------------------------------------------
(* The forum lookup of read-forum-threads (497-535), add-thread-tags       *)
(* (671-709), list-threads (767-805) and search-threads (883-921): the     *)
(* same code four times.                                                   *)

\* Mutant of forumById: the channel type is not checked.
forumByIdAnyType(guild, channelIdentifier) ==
  guildChannelsFetch(guild, channelIdentifier)

\* Lines 497-503: guild.channels.fetch, kept if it is a forum; a rejection is
\* swallowed by the empty catch.
forumById(guild, channelIdentifier) ==
  LET f == guildChannelsFetch(guild, channelIdentifier)
  IN IF f.kind = "ok" /\ IsForum(f.val) THEN f ELSE Rejected

forumLookup(guild, channelIdentifier) ==
  LET f == forumById(guild, channelIdentifier)
      forums == SelectSeq(guildChannelsCache(guild), IsForum)
      found == SelectSeq(forums, LAMBDA c : NameMatches(c.name, channelIdentifier))
  IN IF f.kind = "ok"
     THEN f
     ELSE IF Len(found) = 0
          THEN Err("ForumNotFound", channelIdentifier, Map(NameOf, forums), <<>>)
     ELSE IF Len(found) > 1
          THEN Err("MultipleForums", channelIdentifier, Map(NameOf, found), Map(IdOf, found))
     ELSE Ok(found[1])

\* findGuild(server), then the forum lookup in that guild.
findForum(channelIdentifier, server) ==
  LET g == findGuild(server) IN
  IF g.res.kind # "ok"
  THEN [guild |-> g.res, channel |-> g.res, guildsFetch |-> g.fetches, channelsFetch |-> 0]
  ELSE [guild |-> g.res, channel |-> forumLookup(g.res.val, channelIdentifier),
        guildsFetch |-> g.fetches, channelsFetch |-> 1]

----------------------------------------------------------------------------
(* Thread collections *)

\* forumChannel.threads.fetchActive(): the unarchived threads of the forum.
fetchActive(forum) ==
  Map(IdOf, SelectSeq(channels, LAMBDA c : /\ IsThreadChannel(c)
                                           /\ c.parentId = forum.id
                                           /\ ~archived[c.id]))

\* Mutant of concat: every element of b is appended, as Array.prototype.concat does.
concatKeepingAll(a, b) == a \o b

\* Collection.concat: a Map keyed by thread id; a key already present keeps its
\* place. A batch is itself a Collection: it holds each id once.
concat(a, b) == a \o SelectSeq(b, LAMBDA t : t \notin Range(a))

Min(a, b) == IF a <= b THEN a ELSE b

\* Array.prototype.slice(0, n)
slice(s, n) == SubSeq(s, 1, Min(n, Len(s)))

\* Mutant of insertByCreated: t goes before the elements of its own age.
insertBeforeEqual(sorted, t) ==
  LET k == Cardinality({i \in 1..Len(sorted) :
                          createdTimestamp(sorted[i]) > createdTimestamp(t)})
  IN SubSeq(sorted, 1, k) \o <<t>> \o SubSeq(sorted, k+1, Len(sorted))

\* (a, b) => b.createdTimestamp - a.createdTimestamp under Array.prototype.sort,
\* which is stable: t goes behind every element that is not older than it.
insertByCreated(sorted, t) ==
  LET k == Cardinality({i \in 1..Len(sorted) :
                          createdTimestamp(sorted[i]) >= createdTimestamp(t)})
  IN SubSeq(sorted, 1, k) \o <<t>> \o SubSeq(sorted, k+1, Len(sorted))

RECURSIVE sortByCreated(_)
sortByCreated(s) ==
  IF s = <<>> THEN <<>>
  ELSE insertByCreated(sortByCreated(SubSeq(s, 1, Len(s)-1)), s[Len(s)])

\* Mutant of matchesQuery: the query is compared as typed.
matchesQueryAsTyped(name, query, exactMatch) ==
  LET threadNameLower == toLowerCase(name)
  IN IF exactMatch THEN threadNameLower = query
                   ELSE includes(threadNameLower, query)

\* The filter predicate of search-threads, lines 959-966.
matchesQuery(name, query, exactMatch) ==
  LET queryLower == toLowerCase(query)
      threadNameLower == toLowerCase(name)
  IN IF exactMatch THEN threadNameLower = queryLower
                   ELSE includes(threadNameLower, queryLower)

\* JavaScript null
Null == [null |-> TRUE]

\* The name given to a tag id the forum does not have, as a JS string.
UnknownTag == <<"U","n","k","n","o","w","n"," ","T","a","g">>

\* tag.emoji of a forum tag: tag t1 has a custom emoji, tag t3 a unicode one
\* (its id is null), the others none.
emojiOf(tagId) ==
  CASE tagId = <<"t","1">> -> [id |-> <<"e","1">>, name |-> <<"x">>]
    [] tagId = <<"t","3">> -> [id |-> Null, name |-> <<"y">>]
    [] OTHER -> Null

\* Mutant of threadTags: an applied id the forum does not have is left out.
threadTagsKnownOnly(thread, forumChannel) ==
  LET tags == availableTags[forumChannel.id]
      known == SelectSeq(appliedTags[thread],
                         LAMBDA tagId : \E i \in 1..Len(tags) : tags[i].id = tagId)
  IN Map(LAMBDA tagId :
           LET tag == tags[CHOOSE i \in 1..Len(tags) : tags[i].id = tagId]
           IN [id |-> tag.id, name |-> tag.name,
               emoji |-> IF emojiOf(tag.id) # Null
                         THEN [id |-> emojiOf(tag.id).id, name |-> emojiOf(tag.id).name]
                         ELSE Null],
         known)

\* thread.appliedTags.map(tagId => ...) of lines 550-565, 828-842, 977-991:
\* the forum's tag of that id (the first, as find does), or the placeholder.
threadTags(thread, forumChannel) ==
  LET tags == availableTags[forumChannel.id]
  IN Map(LAMBDA tagId :
           IF \E i \in 1..Len(tags) : tags[i].id = tagId
           THEN LET tag == tags[CHOOSE i \in 1..Len(tags) :
                                 /\ tags[i].id = tagId
                                 /\ \A j \in 1..(i-1) : tags[j].id # tagId]
                IN [id |-> tag.id, name |-> tag.name,
                    emoji |-> IF emojiOf(tag.id) # Null
                              THEN [id |-> emojiOf(tag.id).id, name |-> emojiOf(tag.id).name]
                              ELSE Null]
           ELSE [id |-> tagId, name |-> UnknownTag, emoji |-> Null],
         appliedTags[thread])

\* search-threads from the filter to the result, lines 958-1027.
searchResult(all, query, exactMatch, limit, forumChannel) ==
  LET filteredThreads == SelectSeq(all,
                           LAMBDA t : matchesQuery(ChannelById(t).name, query, exactMatch))
      threadList == slice(sortByCreated(filteredThreads), limit)
  IN [kind |-> "ok", filtered |-> filteredThreads, threads |-> threadList,
      tags |-> Map(LAMBDA t : threadTags(t, forumChannel), threadList),
      totalFound |-> Len(threadList), totalSearched |-> Len(filteredThreads)]

\* list-threads from the sort to the result, lines 820-875.
listResult(all, limit, forumChannel) ==
  LET threadList == slice(sortByCreated(all), limit)
  IN [kind |-> "ok", threads |-> threadList,
      tags |-> Map(LAMBDA t : threadTags(t, forumChannel), threadList),
      totalThreads |-> Len(threadList)]

maxFetches == 10

\* The `limit` option of each fetchArchived of search-threads, line 939.
archivedLimit == 100

\* Mutant of whileCondition: `<=` for `<`.
whileConditionOneMore(hasMore, count) == hasMore /\ count <= maxFetches

\* while (hasMore && fetchCount < maxFetches), line 938
whileCondition(hasMore, count) == hasMore /\ count < maxFetches

----------------------------------------------------------------------------
(* Tags, src/src/index.ts 717-750 *)

hasTag(tags, tagName) ==
  \E i \in 1..Len(tags) : toLowerCase(tags[i].name) = toLowerCase(tagName)

\* forumChannel.availableTags.find(tag => ...): the first match
findTag(tags, tagName) ==
  tags[CHOOSE i \in 1..Len(tags) :
         /\ toLowerCase(tags[i].name) = toLowerCase(tagName)
         /\ \A j \in 1..(i-1) : toLowerCase(tags[j].name) # toLowerCase(tagName)]

\* Mutant of resolveTags: a name without a tag is skipped.
resolveTagsSkipping(tagNames, tags) ==
  [tagIds |-> Map(LAMBDA n : findTag(tags, n).id,
                  SelectSeq(tagNames, LAMBDA n : hasTag(tags, n))),
   notFoundTags |-> <<>>]

\* the loop of lines 721-730: [tagIds, notFoundTags]
resolveTags(tagNames, tags) ==
  [tagIds |-> Map(LAMBDA n : findTag(tags, n).id,
                  SelectSeq(tagNames, LAMBDA n : hasTag(tags, n))),
   notFoundTags |-> SelectSeq(tagNames, LAMBDA n : ~hasTag(tags, n))]

RECURSIVE unique(_)
\* [...new Set(xs)]: each element once, at its first place
unique(xs) ==
  IF xs = <<>> THEN <<>>
  ELSE LET r == unique(SubSeq(xs, 1, Len(xs)-1))
       IN IF xs[Len(xs)] \in Range(r) THEN r ELSE Append(r, xs[Len(xs)])

\* Mutant of mergeTags: the resolved ids replace the applied ones.
mergeTagsReplacing(currentTagIds, tagIds) == unique(tagIds)

\* lines 739-741
mergeTags(currentTagIds, tagIds) == unique(currentTagIds \o tagIds)

----------------------------------------------------------------------------
(* Remote calls of one invocation *)

NoCalls ==
  [guildsFetch |-> 0, channelsFetch |-> 0, fetchActive |-> 0, fetchArchived |-> 0,
   send |-> 0, messagesFetch |-> 0, setAppliedTags |-> 0, setArchived |-> 0]

\* The fetchArchived requests of the invocation: how many were sent, the
\* `before` option of the latest, how many were answered, the latest batch
\* received, the ids received so far, the index of the first empty batch
\* (0: none), whether the latest request was rejected.
NoRequests ==
  [sent |-> 0, cursor |-> Undefined, answered |-> 0, lastBatch |-> <<>>,
   received |-> {}, emptyAt |-> 0, failed |-> FALSE]

FirstRequest == [NoRequests EXCEPT !.sent = 1]

\* `rq` once `batch` has answered its latest request
Answered(rq, batch) ==
  [rq EXCEPT !.answered = rq.answered + 1,
             !.lastBatch = batch,
             !.received = rq.received \cup Range(batch),
             !.emptyAt = IF rq.emptyAt = 0 /\ batch = <<>> THEN rq.answered + 1
                         ELSE rq.emptyAt]

----------------------------------------------------------------------------
(* Tool handlers, src/src/index.ts 423-1080 *)

loopIdle == /\ allThreads' = <<>>
            /\ before' = Undefined
            /\ fetchCount' = 0
            /\ requests' = NoRequests

resolutionCalls(r) ==
  [NoCalls EXCEPT !.guildsFetch = r.guildsFetch, !.channelsFetch = r.channelsFetch]

\* case "send-message": the server argument is parsed by the schema and not
\* passed to findChannel.
sendMessageChannel(server, channelIdentifier) == findChannel(channelIdentifier, Undefined)

SendMessage(server, channelIdentifier) ==
  /\ pc = "idle"
  /\ \E r \in {sendMessageChannel(server, channelIdentifier)} :
       /\ inv' = [tool |-> "send-message", server |-> server, channel |-> channelIdentifier]
       /\ resolved' = [guild |-> r.guild, channel |-> r.channel]
       /\ calls' = [resolutionCalls(r) EXCEPT
                      !.send = IF r.channel.kind = "ok" THEN 1 ELSE 0]
       /\ out' = IF r.channel.kind # "ok" THEN r.channel
                 ELSE IF ~restAvailable THEN ApiError(channelIdentifier)
                 ELSE [kind |-> "ok", channel |-> r.channel.val.id,
                       guild |-> r.channel.val.guildId]
  /\ pc' = "done"
  /\ loopIdle
  /\ UNCHANGED <<world, cachedTags, tasks, appliedTags, archived>>

\* case "read-messages": as send-message, without the server argument.
readMessagesChannel(server, channelIdentifier) == findChannel(channelIdentifier, Undefined)

ReadMessages(server, channelIdentifier) ==
  /\ pc = "idle"
  /\ \E r \in {readMessagesChannel(server, channelIdentifier)} :
       /\ inv' = [tool |-> "read-messages", server |-> server, channel |-> channelIdentifier]
       /\ resolved' = [guild |-> r.guild, channel |-> r.channel]
       /\ calls' = [resolutionCalls(r) EXCEPT
                      !.messagesFetch = IF r.channel.kind = "ok" THEN 1 ELSE 0]
       /\ out' = IF r.channel.kind # "ok" THEN r.channel
                 ELSE IF ~restAvailable THEN ApiError(channelIdentifier)
                 ELSE [kind |-> "ok", channel |-> r.channel.val.id,
                       guild |-> r.channel.val.guildId]
  /\ pc' = "done"
  /\ loopIdle
  /\ UNCHANGED <<world, cachedTags, tasks, appliedTags, archived>>

\* Mutant of messagesFetched: a rejected messages.fetch is passed over and the
\* loop goes on to the remaining threads.
messagesFetchedPassingOver(threadList, k) == Len(threadList)

\* The messages.fetch calls of the loop of lines 541-548 when the k-th of them
\* rejects (k = 0: none does): the awaited rejection leaves the loop and the case.
messagesFetched(threadList, k) == IF k = 0 THEN Len(threadList) ELSE k

\* case "read-forum-threads": the first `limit` active threads, each with one
\* messages.fetch.
ReadForumThreads(server, channelIdentifier, limit) ==
  /\ pc = "idle"
  /\ \E r \in {findForum(channelIdentifier, server)} :
     LET threadList == IF r.channel.kind = "ok" /\ restAvailable
                       THEN slice(fetchActive(r.channel.val), limit) ELSE <<>>
     IN
       /\ inv' = [tool |-> "read-forum-threads", server |-> server,
                  channel |-> channelIdentifier, limit |-> limit, rejectedAt |-> 0]
       /\ resolved' = [guild |-> r.guild, channel |-> r.channel]
       /\ calls' = [resolutionCalls(r) EXCEPT
                      !.fetchActive = IF r.channel.kind = "ok" THEN 1 ELSE 0,
                      !.messagesFetch = messagesFetched(threadList, 0)]
       /\ out' = IF r.channel.kind # "ok" THEN r.channel
                 ELSE IF ~restAvailable THEN ApiError(channelIdentifier)
                 ELSE [kind |-> "ok", threads |-> threadList,
                       tags |-> Map(LAMBDA t : threadTags(t, r.channel.val), threadList)]
  /\ pc' = "done"
  /\ loopIdle
  /\ UNCHANGED <<world, cachedTags, tasks, appliedTags, archived>>

\* read-forum-threads when the messages.fetch of its k-th thread (line 548)
\* rejects: the threads before it have been fetched, those after it are not.
ReadForumThreadsRejected(server, channelIdentifier, limit, k) ==
  /\ pc = "idle"
  /\ restAvailable
  /\ \E r \in {findForum(channelIdentifier, server)} :
       /\ r.channel.kind = "ok"
       /\ \E threadList \in {slice(fetchActive(r.channel.val), limit)} :
            /\ k \in 1..Len(threadList)
            /\ inv' = [tool |-> "read-forum-threads", server |-> server,
                       channel |-> channelIdentifier, limit |-> limit, rejectedAt |-> k]
            /\ resolved' = [guild |-> r.guild, channel |-> r.channel]
            /\ calls' = [resolutionCalls(r) EXCEPT
                           !.fetchActive = 1,
                           !.messagesFetch = messagesFetched(threadList, k)]
            /\ out' = ApiError(threadList[k])
  /\ pc' = "done"
  /\ loopIdle
  /\ UNCHANGED <<world, cachedTags, tasks, appliedTags, archived>>

\* case "add-thread-tags", as a function of the arguments: the resolution, the
\* outcome, and the list given to thread.setAppliedTags (if it is called).
addThreadTags(server, channelIdentifier, threadId, tagNames) ==
  LET r == findForum(channelIdentifier, server)
      res == [guild |-> r.guild, channel |-> r.channel]
  IN IF r.channel.kind # "ok"
     THEN [resolved |-> res, out |-> r.channel, set |-> FALSE, newTagIds |-> <<>>,
           calls |-> resolutionCalls(r)]
     ELSE
       LET forumChannel == r.channel.val
           t == guildChannelsFetch(r.guild.val, threadId)
           fetched == [resolutionCalls(r) EXCEPT !.channelsFetch = 2]
       IN IF t.kind # "ok"
          THEN [resolved |-> res, out |-> ApiError(threadId),
                set |-> FALSE, newTagIds |-> <<>>, calls |-> fetched]
          ELSE IF t.val.type # "PublicThread" \/ t.val.parentId # forumChannel.id
          THEN [resolved |-> res,
                out |-> Err("ThreadNotInForum", threadId, <<forumChannel.name>>, <<>>),
                set |-> FALSE, newTagIds |-> <<>>, calls |-> fetched]
          ELSE
            LET tags == availableTags[forumChannel.id]
                rt == resolveTags(tagNames, tags)
                newTagIds == mergeTags(cachedTags[threadId], rt.tagIds)
            IN IF Len(rt.notFoundTags) > 0
               THEN [resolved |-> res,
                     out |-> Err("TagsNotFound", rt.notFoundTags, Map(NameOf, tags), <<>>),
                     set |-> FALSE, newTagIds |-> <<>>, calls |-> fetched]
               ELSE IF ~restAvailable
               THEN [resolved |-> res, out |-> ApiError(threadId),
                     set |-> FALSE, newTagIds |-> newTagIds,
                     calls |-> [fetched EXCEPT !.setAppliedTags = 1]]
               ELSE [resolved |-> res,
                     out |-> [kind |-> "ok", thread |-> threadId,
                              forum |-> forumChannel.id, applied |-> newTagIds],
                     set |-> TRUE, newTagIds |-> newTagIds,
                     calls |-> [fetched EXCEPT !.setAppliedTags = 1]]

AddThreadTags(server, channelIdentifier, threadId, tagNames) ==
  /\ pc = "idle"
  /\ \E h \in {addThreadTags(server, channelIdentifier, threadId, tagNames)} :
       /\ inv' = [tool |-> "add-thread-tags", server |-> server,
                  channel |-> channelIdentifier, threadId |-> threadId,
                  tagNames |-> tagNames, appliedBefore |-> appliedTags]
       /\ resolved' = h.resolved
       /\ calls' = h.calls
       /\ out' = h.out
       /\ appliedTags' = IF h.set THEN [appliedTags EXCEPT ![threadId] = h.newTagIds]
                         ELSE appliedTags
  /\ pc' = "done"
  /\ loopIdle
  /\ cachedTags' = appliedTags'
  /\ UNCHANGED <<world, tasks, archived>>

\* case "list-threads": up to the first await of fetchArchived.
ListThreads(server, channelIdentifier, limit, includeArchived) ==
  /\ pc = "idle"
  /\ \E r \in {findForum(channelIdentifier, server)} :
     LET all == IF r.channel.kind = "ok" /\ restAvailable
                THEN concat(<<>>, fetchActive(r.channel.val)) ELSE <<>>
     IN
       /\ inv' = [tool |-> "list-threads", server |-> server,
                  channel |-> channelIdentifier, limit |-> limit,
                  includeArchived |-> includeArchived]
       /\ resolved' = [guild |-> r.guild, channel |-> r.channel]
       /\ allThreads' = all
       /\ before' = Undefined
       /\ fetchCount' = 0
       /\ IF r.channel.kind # "ok"
          THEN /\ pc' = "done"
               /\ out' = r.channel
               /\ calls' = resolutionCalls(r)
               /\ requests' = NoRequests
          ELSE IF ~restAvailable
          THEN /\ pc' = "done"
               /\ out' = ApiError(channelIdentifier)
               /\ calls' = [resolutionCalls(r) EXCEPT !.fetchActive = 1]
               /\ requests' = NoRequests
          ELSE IF includeArchived
          THEN /\ pc' = "listArchived"
               /\ out' = None
               /\ calls' = [resolutionCalls(r) EXCEPT !.fetchActive = 1, !.fetchArchived = 1]
               /\ requests' = FirstRequest
          ELSE /\ pc' = "done"
               /\ out' = listResult(all, limit, r.channel.val)
               /\ calls' = [resolutionCalls(r) EXCEPT !.fetchActive = 1]
               /\ requests' = NoRequests
  /\ UNCHANGED <<world, cachedTags, tasks, appliedTags, archived>>

\* list-threads, from the answer to its one fetchArchived() (line 816) to the
\* result.
ListArchivedBatch(batch) ==
  /\ pc = "listArchived"
  /\ LET all == concat(allThreads, batch) IN
       /\ allThreads' = all
       /\ out' = listResult(all, inv.limit, resolved.channel.val)
  /\ requests' = Answered(requests, batch)
  /\ pc' = "done"
  /\ UNCHANGED <<world, cachedTags, tasks, request, appliedTags, archived, inv, resolved, before, fetchCount, calls>>

\* case "search-threads": up to the first await of fetchArchived.
SearchThreads(server, channelIdentifier, query, limit, includeArchived, exactMatch) ==
  /\ pc = "idle"
  /\ \E r \in {findForum(channelIdentifier, server)} :
     LET all == IF r.channel.kind = "ok" /\ restAvailable
                THEN concat(<<>>, fetchActive(r.channel.val)) ELSE <<>>
     IN
       /\ inv' = [tool |-> "search-threads", server |-> server,
                  channel |-> channelIdentifier, query |-> query, limit |-> limit,
                  includeArchived |-> includeArchived, exactMatch |-> exactMatch]
       /\ resolved' = [guild |-> r.guild, channel |-> r.channel]
       /\ allThreads' = all
       /\ before' = Undefined
       /\ fetchCount' = 0
       /\ IF r.channel.kind # "ok"
          THEN /\ pc' = "done"
               /\ out' = r.channel
               /\ calls' = resolutionCalls(r)
               /\ requests' = NoRequests
          ELSE IF ~restAvailable
          THEN /\ pc' = "done"
               /\ out' = ApiError(channelIdentifier)
               /\ calls' = [resolutionCalls(r) EXCEPT !.fetchActive = 1]
               /\ requests' = NoRequests
          ELSE IF includeArchived /\ whileCondition(TRUE, 0)
          THEN /\ pc' = "archived"
               /\ out' = None
               /\ calls' = [resolutionCalls(r) EXCEPT !.fetchActive = 1, !.fetchArchived = 1]
               /\ requests' = FirstRequest
          ELSE /\ pc' = "done"
               /\ out' = searchResult(all, query, exactMatch, limit, r.channel.val)
               /\ calls' = [resolutionCalls(r) EXCEPT !.fetchActive = 1]
               /\ requests' = NoRequests
  /\ UNCHANGED <<world, cachedTags, tasks, appliedTags, archived>>

\* Mutant of lastKey: the first id of the batch, its newest thread.
firstKey(batch) == batch[1]

\* threadIds[threadIds.length - 1] of lines 951-952: the last key of the batch
lastKey(batch) == batch[Len(batch)]

\* One iteration of the pagination loop of search-threads, from the answer to
\* fetchArchived (line 944) to the next fetchArchived, or to the result when the
\* loop ends.
SearchArchivedBatch(batch) ==
  /\ pc = "archived"
  /\ LET empty == Len(batch) = 0
         hasMore == ~empty
         all == IF empty THEN allThreads ELSE concat(allThreads, batch)
         cursor == IF empty THEN before ELSE lastKey(batch)
         count == IF empty THEN fetchCount ELSE fetchCount + 1
         rq == Answered(requests, batch)
     IN
       /\ allThreads' = all
       /\ before' = cursor
       /\ fetchCount' = count
       /\ IF whileCondition(hasMore, count)
          THEN /\ pc' = "archived"
               /\ out' = None
               /\ calls' = [calls EXCEPT !.fetchArchived = calls.fetchArchived + 1]
               /\ requests' = [rq EXCEPT !.sent = rq.sent + 1, !.cursor = cursor]
          ELSE /\ pc' = "done"
               /\ out' = searchResult(all, inv.query, inv.exactMatch, inv.limit,
                                       resolved.channel.val)
               /\ calls' = calls
               /\ requests' = rq
  /\ UNCHANGED <<world, cachedTags, tasks, request, appliedTags, archived, inv, resolved>>

\* Mutant of alreadyActive: the archived flag is not consulted.
alreadyActiveNever(threadId) == FALSE

\* !thread.archived, line 1043
alreadyActive(threadId) == ~archived[threadId]

\* Mutant of afterRejectedBatch: the rejection is caught in the loop and the
\* threads collected so far are searched.
afterRejectedBatchPartial(all, query, exactMatch, limit) ==
  searchResult(all, query, exactMatch, limit, resolved.channel.val)

\* What search-threads ends with when the awaited fetchArchived of line 944
\* rejects: no try block encloses the loop, so the rejection leaves the case,
\* reaches the catch of line 1070 and is rethrown; allThreads is dropped.
afterRejectedBatch(all, query, exactMatch, limit) == ApiError(Undefined)

\* search-threads: the pending fetchArchived request is rejected.
SearchArchivedRejected ==
  /\ pc = "archived"
  /\ out' = afterRejectedBatch(allThreads, inv.query, inv.exactMatch, inv.limit)
  /\ requests' = [requests EXCEPT !.failed = TRUE]
  /\ pc' = "done"
  /\ UNCHANGED <<world, cachedTags, tasks, request, appliedTags, archived, inv, resolved, allThreads, before,
                 fetchCount, calls>>

\* list-threads: its fetchArchived request (line 816) is rejected.
ListArchivedRejected ==
  /\ pc = "listArchived"
  /\ out' = ApiError(Undefined)
  /\ requests' = [requests EXCEPT !.failed = TRUE]
  /\ pc' = "done"
  /\ UNCHANGED <<world, cachedTags, tasks, request, appliedTags, archived, inv, resolved, allThreads, before,
                 fetchCount, calls>>

\* case "unarchive-thread"
UnarchiveThread(server, threadId, reason) ==
  /\ pc = "idle"
  /\ \E g \in {findGuild(server)} :
     LET t == IF g.res.kind = "ok" THEN guildChannelsFetch(g.res.val, threadId) ELSE Rejected
         c == [NoCalls EXCEPT !.guildsFetch = g.fetches,
                              !.channelsFetch = IF g.res.kind = "ok" THEN 1 ELSE 0]
     IN
       /\ inv' = [tool |-> "unarchive-thread", server |-> server, threadId |-> threadId,
                  reason |-> reason, archivedBefore |-> archived]
       /\ resolved' = [guild |-> g.res, channel |-> IF g.res.kind = "ok" THEN t ELSE g.res]
       /\ IF g.res.kind # "ok"
          THEN out' = g.res /\ calls' = c /\ archived' = archived
          ELSE IF t.kind # "ok"
          THEN /\ out' = ApiError(threadId)
               /\ calls' = c /\ archived' = archived
          ELSE IF ~IsThreadChannel(t.val)
          THEN /\ out' = Err("NotAThread", threadId, <<>>, <<>>)
               /\ calls' = c /\ archived' = archived
          ELSE IF alreadyActive(threadId)
          THEN /\ out' = [kind |-> "ok", thread |-> threadId, alreadyActive |-> TRUE]
               /\ calls' = c /\ archived' = archived
          ELSE IF ~restAvailable
          THEN /\ out' = ApiError(threadId)
               /\ calls' = [c EXCEPT !.setArchived = 1]
               /\ archived' = archived
          ELSE /\ out' = [kind |-> "ok", thread |-> threadId, alreadyActive |-> FALSE,
                          setArchived |-> <<FALSE, reason>>]
               /\ calls' = [c EXCEPT !.setArchived = 1]
               /\ archived' = [archived EXCEPT ![threadId] = FALSE]
  /\ pc' = "done"
  /\ loopIdle
  /\ UNCHANGED <<world, cachedTags, tasks, appliedTags>>

\* The handler returns its result (or rethrows, line 1078) and the transport
\* accepts the next request.
Return ==
  /\ pc = "done"
  /\ pc' = "idle"
  /\ inv' = None
  /\ resolved' = None
  /\ calls' = NoCalls
  /\ out' = None
  /\ request' = None
  /\ loopIdle
  /\ UNCHANGED <<world, cachedTags, tasks, appliedTags, archived>>

----------------------------------------------------------------------------
(* Spec: the resolvers. Any guild cache, any server and channel argument,  *)
(* every tool.                                                            *)

----------------------------------------------------------------------------
(* The request handler: validation and dispatch, src/src/index.ts 120-182, *)
(* 423-431, 1067-1079                                                      *)

\* An argument as the request carries it: absent, or a JSON value with its type.
Absent == [type |-> "undefined"]
Str(s) == [type |-> "string", str |-> s]
Num(n) == [type |-> "number", num |-> n]
Bool(b) == [type |-> "boolean", bool |-> b]
Arr(a) == [type |-> "array", arr |-> a]

\* The value of an argument that is present.
ValueOf(v) ==
  CASE v.type = "string" -> v.str
    [] v.type = "number" -> v.num
    [] v.type = "boolean" -> v.bool
    [] v.type = "array" -> v.arr

\* The argument that parses to the string-or-undefined x.
Raw(x) == IF x = Undefined THEN Absent ELSE Str(x)

ArgNames == {"server", "channel", "message", "limit", "before", "threadId", "tagNames",
             "query", "includeArchived", "exactMatch", "reason", "url", "filename",
             "directory"}
NoArgs ==
  [server |-> Absent, channel |-> Absent, message |-> Absent, limit |-> Absent,
   before |-> Absent, threadId |-> Absent, tagNames |-> Absent, query |-> Absent,
   includeArchived |-> Absent, exactMatch |-> Absent, reason |-> Absent, url |-> Absent,
   filename |-> Absent, directory |-> Absent]

ToolNames == {"send-message", "read-messages", "read-forum-threads", "download-attachment",
              "add-thread-tags", "list-threads", "search-threads", "unarchive-thread"}

\* The fields of a zod object schema: z.<type>(), .optional(), .min().max().default().
Required(name, type) ==
  [name |-> name, type |-> type, optional |-> FALSE, hasDefault |-> FALSE,
   default |-> Undefined, min |-> 0, max |-> 0]
Optional(name, type) ==
  [name |-> name, type |-> type, optional |-> TRUE, hasDefault |-> FALSE,
   default |-> Undefined, min |-> 0, max |-> 0]
Limit(min, max, default) ==
  [name |-> "limit", type |-> "number", optional |-> FALSE, hasDefault |-> TRUE,
   default |-> default, min |-> min, max |-> max]
Flag(name, default) ==
  [name |-> name, type |-> "boolean", optional |-> FALSE, hasDefault |-> TRUE,
   default |-> default, min |-> 0, max |-> 0]

\* The schemas of lines 120-182.
Schema(name) ==
  CASE name = "send-message" ->
         <<Optional("server", "string"), Required("channel", "string"),
           Required("message", "string")>>
    [] name = "read-messages" ->
         <<Optional("server", "string"), Required("channel", "string"),
           Limit(1, 100, 50), Optional("before", "stringOrNumber")>>
    [] name = "read-forum-threads" ->
         <<Optional("server", "string"), Required("channel", "string"),
           Limit(1, 50, 10), Optional("before", "stringOrNumber")>>
    [] name = "download-attachment" ->
         <<Required("url", "url"), Optional("filename", "string"),
           Optional("directory", "string")>>
    [] name = "add-thread-tags" ->
         <<Optional("server", "string"), Required("channel", "string"),
           Required("threadId", "string"), Required("tagNames", "array")>>
    [] name = "list-threads" ->
         <<Optional("server", "string"), Required("channel", "string"),
           Limit(1, 100, 50), Flag("includeArchived", FALSE)>>
    [] name = "search-threads" ->
         <<Optional("server", "string"), Required("channel", "string"),
           Required("query", "string"), Limit(1, 100, 50),
           Flag("includeArchived", TRUE), Flag("exactMatch", FALSE)>>
    [] name = "unarchive-thread" ->
         <<Optional("server", "string"), Required("threadId", "string"),
           Optional("reason", "string")>>

\* z.string().url(): the string parses as a URL, that is, it has a scheme.
IsUrl(str) == \E i \in 2..Len(str) : str[i] = ":"

\* Whether the value has the type of the field, bounds left aside.
HasType(f, v) ==
  CASE f.type = "string" -> v.type = "string"
    [] f.type = "number" -> v.type = "number"
    [] f.type = "boolean" -> v.type = "boolean"
    [] f.type = "array" -> v.type = "array"
    [] f.type = "stringOrNumber" -> v.type \in {"string", "number"}
    [] f.type = "url" -> v.type = "string" /\ IsUrl(v.str)

\* Whether zod accepts the value v for the field f.
FieldOk(f, v) ==
  IF v.type = "undefined" THEN f.optional \/ f.hasDefault
  ELSE /\ HasType(f, v)
       /\ (f.type = "number" => f.min <= v.num /\ v.num <= f.max)

\* What the parsed object holds for the field f.
FieldValue(f, v) ==
  IF v.type = "undefined" THEN (IF f.hasDefault THEN f.default ELSE Undefined)
  ELSE ValueOf(v)

\* Mutant of parse: .min() and .max() are not checked.
parseWithoutBounds(name, args) ==
  LET schema == Schema(name)
      bad == SelectSeq(schema, LAMBDA f : /\ args[f.name].type # "undefined"
                                         /\ ~HasType(f, args[f.name]))
  IN [ok |-> Len(bad) = 0,
      issues |-> Map(NameOf, bad),
      val |-> [a \in ArgNames |->
                 IF \E i \in 1..Len(schema) : schema[i].name = a
                 THEN FieldValue(schema[CHOOSE i \in 1..Len(schema) : schema[i].name = a],
                                 args[a])
                 ELSE Undefined]]

\* <Tool>Schema.parse(args): the fields zod rejects, in the order of the
\* schema, and the parsed object with the defaults filled in. Keys the schema
\* does not have are dropped.
parse(name, args) ==
  LET schema == Schema(name)
      bad == SelectSeq(schema, LAMBDA f : ~FieldOk(f, args[f.name]))
  IN [ok |-> Len(bad) = 0,
      issues |-> Map(NameOf, bad),
      val |-> [a \in ArgNames |->
                 IF \E i \in 1..Len(schema) : schema[i].name = a
                 THEN FieldValue(schema[CHOOSE i \in 1..Len(schema) : schema[i].name = a],
                                 args[a])
                 ELSE Undefined]]

\* The handler ends before any statement of a case has awaited anything: the
\* ZodError of parse rethrown as `Invalid arguments: ...` (1071-1077), or the
\* error of the default case (1067-1068).
Refused(error) ==
  /\ inv' = [tool |-> "(none)"]
  /\ resolved' = None
  /\ calls' = NoCalls
  /\ out' = error
  /\ pc' = "done"
  /\ loopIdle
  /\ UNCHANGED <<world, cachedTags, tasks, appliedTags, archived>>

\* case "download-attachment", lines 613-664: the URL is fetched over HTTP and
\* written to a file; no Discord call is involved.
DownloadAttachment(url) ==
  /\ pc = "idle"
  /\ inv' = [tool |-> "download-attachment", url |-> url]
  /\ resolved' = None
  /\ calls' = NoCalls
  /\ \E answered \in BOOLEAN :
       out' = IF answered THEN [kind |-> "ok", url |-> url]
              ELSE Err("DownloadFailed", url, <<>>, <<>>)
  /\ pc' = "done"
  /\ loopIdle
  /\ UNCHANGED <<world, cachedTags, tasks, appliedTags, archived>>

\* The request handler of lines 423-1079 up to the first suspension of the
\* case: the tool name selects the case, the case parses the arguments first.
CallTool(name, args) ==
  /\ pc = "idle"
  /\ request' = [name |-> name, args |-> args]
  /\ IF name \notin ToolNames
     THEN Refused(Err("UnknownTool", name, <<>>, <<>>))
     ELSE \E p \in {parse(name, args)} :
       IF ~p.ok
       THEN Refused(Err("InvalidArguments", name, p.issues, <<>>))
       ELSE \E server \in {p.val.server}, channel \in {p.val.channel},
               limit \in {p.val.limit}, threadId \in {p.val.threadId},
               tagNames \in {p.val.tagNames}, query \in {p.val.query},
               includeArchived \in {p.val.includeArchived},
               exactMatch \in {p.val.exactMatch}, reason \in {p.val.reason},
               url \in {p.val.url} :
         CASE name = "send-message" -> SendMessage(server, channel)
           [] name = "read-messages" -> ReadMessages(server, channel)
           [] name = "read-forum-threads" -> ReadForumThreads(server, channel, limit)
           [] name = "download-attachment" -> DownloadAttachment(url)
           [] name = "add-thread-tags" -> AddThreadTags(server, channel, threadId, tagNames)
           [] name = "list-threads" -> ListThreads(server, channel, limit, includeArchived)
           [] name = "search-threads" ->
                SearchThreads(server, channel, query, limit, includeArchived, exactMatch)
           [] name = "unarchive-thread" -> UnarchiveThread(server, threadId, reason)

\* A call of read-forum-threads whose k-th messages.fetch is rejected.
CallToolMessagesRejected(args, k) ==
  /\ pc = "idle"
  /\ request' = [name |-> "read-forum-threads", args |-> args]
  /\ \E p \in {parse("read-forum-threads", args)} :
       /\ p.ok
       /\ \E server \in {p.val.server}, channel \in {p.val.channel}, limit \in {p.val.limit} :
            ReadForumThreadsRejected(server, channel, limit, k)

----------------------------------------------------------------------------
ServerArgs == {Undefined, <<>>, <<"1">>, <<"2">>, <<"3">>, <<"a">>}
ChannelArgs == {<<"1","0">>, <<"2","0">>, <<"1","3">>, <<"7","1">>, <<"9","9">>,
                <<"a">>, <<"#","b">>, <<"b","#">>, <<"c">>}

NoTags == [f \in ForumIds |-> <<>>]

InitIdle ==
  /\ pc = "idle"
  /\ inv = None
  /\ resolved = None
  /\ allThreads = <<>>
  /\ before = Undefined
  /\ fetchCount = 0
  /\ requests = NoRequests
  /\ calls = NoCalls
  /\ out = None
  /\ cachedTags = appliedTags
  /\ tasks = <<>>
  /\ request = None

Init ==
  /\ guilds \in GuildCaches
  /\ remoteGuilds \in {{}} \cup
        (IF UncachedGuild.id \in {g.id : g \in Range(guilds)} THEN {} ELSE {{UncachedGuild}})
  /\ restAvailable \in BOOLEAN
  /\ channels = ChannelUniverse
  /\ availableTags = NoTags
  /\ appliedTags = [t \in ThreadIds |-> <<>>]
  /\ archived = [t \in ThreadIds |-> t = <<"7","4">>]
  /\ InitIdle

\* The messages.fetch calls of read-forum-threads any of which may be rejected.
MaxRejectedAt == 3

\* The arguments `server` and `channel` of a call, the others absent.
OnChannel(s, c) == [NoArgs EXCEPT !.server = Raw(s), !.channel = Raw(c)]

Next ==
  \/ \E s \in ServerArgs, c \in ChannelArgs :
        CallTool("send-message", [OnChannel(s, c) EXCEPT !.message = Str(<<"m">>)])
  \/ \E s \in ServerArgs, c \in ChannelArgs : CallTool("read-messages", OnChannel(s, c))
  \/ \E s \in ServerArgs, c \in ChannelArgs :
        CallTool("read-forum-threads", OnChannel(s, c))
  \/ \E s \in ServerArgs, c \in ChannelArgs, k \in 1..MaxRejectedAt :
        CallToolMessagesRejected(OnChannel(s, c), k)
  \/ \E s \in ServerArgs, c \in ChannelArgs : CallTool("list-threads", OnChannel(s, c))
  \/ \E s \in ServerArgs, c \in ChannelArgs :
        CallTool("search-threads",
                 [OnChannel(s, c) EXCEPT !.query = Str(<<"l","i">>),
                                         !.includeArchived = Bool(FALSE)])
  \/ \E s \in ServerArgs, c \in ChannelArgs :
        CallTool("add-thread-tags",
                 [OnChannel(s, c) EXCEPT !.threadId = Str(<<"7","1">>),
                                         !.tagNames = Arr(<<>>)])
  \/ \E s \in ServerArgs, t \in {<<"7","1">>, <<"7","4">>, <<"1","0">>, <<"9","9">>} :
        CallTool("unarchive-thread",
                 [NoArgs EXCEPT !.server = Raw(s), !.threadId = Str(t)])
  \/ Return

Spec == Init /\ [][Next]_vars

----------------------------------------------------------------------------
(* SpecThreads: list-threads and search-threads on forum 1,3 of the one    *)
(* cached guild, the platform answering each fetchArchived with any batch. *)

TheGuild == [id |-> <<"1">>, name |-> <<"a">>]
TheForum == <<"1","3">>

MaxBatchLen == 2

\* The threads a batch may hold, and the batches: each id at most once.
PagedThreads == {<<"7","1">>, <<"7","2">>, <<"7","3">>}
BatchPool ==
  {b \in SeqsUpTo(PagedThreads, MaxBatchLen) :
     \A i, j \in 1..Len(b) : i # j => b[i] # b[j]}

\* Which threads of the forum are archived.
ArchivedSets == {{<<"7","1">>, <<"7","2">>, <<"7","3">>},
                 {<<"7","1">>, <<"7","3">>, <<"7","4">>}}

Limits == {1, 2, 50}
Queries == {<<"L","I">>, <<"i","2">>}

\* The tags of forum 1,3, and what its threads have applied: t7 is a tag the
\* forum no longer has.
ListedForumTags ==
  << [id |-> <<"t","1">>, name |-> <<"a">>], [id |-> <<"t","2">>, name |-> <<"B">>],
     [id |-> <<"t","3">>, name |-> <<"A">>] >>
ListedAppliedTags ==
  [t \in ThreadIds |->
     CASE t = <<"7","1">> -> << <<"t","2">>, <<"t","7">>, <<"t","1">> >>
       [] t = <<"7","2">> -> << <<"t","7">>, <<"t","3">> >>
       [] t = <<"7","3">> -> << <<"t","3">> >>
       [] OTHER -> <<>>]

InitThreads ==
  /\ guilds = <<TheGuild>>
  /\ remoteGuilds = {}
  /\ restAvailable = TRUE
  /\ channels = ChannelUniverse
  /\ availableTags = [f \in ForumIds |-> IF f = TheForum THEN ListedForumTags ELSE <<>>]
  /\ appliedTags = ListedAppliedTags
  /\ archived \in {[t \in ThreadIds |-> t \in A] : A \in ArchivedSets}
  /\ InitIdle

\* The arguments `channel` (forum 1,3) and `limit` of a call, the others absent.
OnForum(l) == [NoArgs EXCEPT !.channel = Str(TheForum), !.limit = Num(l)]

NextThreads ==
  \/ \E l \in Limits, a \in BOOLEAN :
        CallTool("list-threads", [OnForum(l) EXCEPT !.includeArchived = Bool(a)])
  \/ \E q \in Queries, l \in Limits, a \in BOOLEAN, e \in BOOLEAN :
        CallTool("search-threads",
                 [OnForum(l) EXCEPT !.query = Str(q), !.includeArchived = Bool(a),
                                    !.exactMatch = Bool(e)])
  \/ \E l \in Limits : CallTool("read-forum-threads", OnForum(l))
  \/ \E l \in Limits, k \in 1..MaxRejectedAt : CallToolMessagesRejected(OnForum(l), k)
  \/ \E b \in BatchPool : ListArchivedBatch(b)
  \/ \E b \in BatchPool : SearchArchivedBatch(b)
  \/ ListArchivedRejected
  \/ SearchArchivedRejected
  \/ Return

SpecThreads == InitThreads /\ [][NextThreads]_vars

----------------------------------------------------------------------------
(* SpecTags: add-thread-tags and unarchive-thread on the threads of the    *)
(* one cached guild, for any requested tag names.                          *)

Tag(id, name) == [id |-> id, name |-> name]

\* The tag sets forum 1,3 may have: "a" and "B", once also "A" (which collides
\* with "a") and once no tag at all.
TagSets ==
  { <<Tag(<<"t","1">>, <<"a">>), Tag(<<"t","2">>, <<"B">>)>>,
    <<Tag(<<"t","1">>, <<"a">>), Tag(<<"t","2">>, <<"B">>), Tag(<<"t","3">>, <<"A">>)>>,
    <<>> }

\* Forum 1,4 has the one tag "c", which forum 1,3 never has.
OtherForumTags == <<Tag(<<"t","9">>, <<"c">>)>>

\* What thread 7,1 has applied at the start: nothing, a tag of the forum, a tag
\* the forum no longer has.
AppliedAtStart == {<<>>, <<<<"t","2">>>>, <<<<"t","7">>>>}

MaxTagNames == 3
TagNameArgs == SeqsUpTo({<<"A">>, <<"b">>, <<"c">>, <<"d">>}, MaxTagNames)
ThreadArgs == {<<"7","1">>, <<"8","1">>, <<"9","9">>}
\* the optional `reason` of unarchive-thread
Reasons == {Undefined, <<"r">>}

InitTags ==
  /\ guilds = <<TheGuild>>
  /\ remoteGuilds = {}
  /\ restAvailable = TRUE
  /\ channels = ChannelUniverse
  /\ availableTags \in {[f \in ForumIds |-> IF f = TheForum THEN ts
                                            ELSE IF f = <<"1","4">> THEN OtherForumTags
                                            ELSE <<>>] : ts \in TagSets}
  /\ appliedTags \in {[t \in ThreadIds |-> IF t = <<"7","1">> THEN a ELSE <<>>] :
                        a \in AppliedAtStart}
  /\ archived = [t \in ThreadIds |-> t = <<"7","4">>]
  /\ InitIdle

NextTags ==
  \/ \E t \in ThreadArgs, names \in TagNameArgs :
        CallTool("add-thread-tags",
                 [NoArgs EXCEPT !.channel = Str(TheForum), !.threadId = Str(t),
                                !.tagNames = Arr(names)])
  \/ \E t \in {<<"7","1">>, <<"7","4">>, <<"1","0">>}, reason \in Reasons :
        CallTool("unarchive-thread",
                 [NoArgs EXCEPT !.threadId = Str(t), !.reason = Raw(reason)])
  \/ Return

SpecTags == InitTags /\ [][NextTags]_vars

----------------------------------------------------------------------------
(* SpecConcurrent: two add-thread-tags invocations on thread 7,1 of forum   *)
(* 1,3. The handler is an async function: it runs until an await whose      *)
(* promise is pending and another invocation may run meanwhile. Its awaits  *)
(* are the lookups (lines 670, 673), the fetch of the thread (712) and      *)
(* setAppliedTags (744); lines 713-743 run without suspension.              *)

TaskIds == {1, 2}
TheThread == <<"7","1">>
ConcurrentForumTags == <<Tag(<<"t","1">>, <<"a">>), Tag(<<"t","2">>, <<"B">>)>>
ConcurrentTagNames == { <<<<"A">>>>, <<<<"b">>>>, <<<<"A">>, <<"b">>>>, <<<<"d">>>> }

\* An invocation: where it is suspended, its tagNames argument, what the
\* lookups returned, the resolved tag ids, the list it gives to setAppliedTags,
\* the thread's applied tags when it was called, whether another invocation's
\* setAppliedTags was unanswered when it read thread.appliedTags, and its result.
IdleTask ==
  [pc |-> "idle", tagNames |-> <<>>, guild |-> None, forumChannel |-> None,
   tagIds |-> <<>>, newTagIds |-> <<>>, appliedAtCall |-> <<>>, overlapped |-> FALSE,
   out |-> None]

InitConcurrent ==
  /\ guilds = <<TheGuild>>
  /\ remoteGuilds = {}
  /\ restAvailable = TRUE
  /\ channels = ChannelUniverse
  /\ availableTags = [f \in ForumIds |-> IF f = TheForum THEN ConcurrentForumTags ELSE <<>>]
  /\ appliedTags \in {[t \in ThreadIds |-> IF t = TheThread THEN a ELSE <<>>] :
                        a \in AppliedAtStart}
  /\ archived = [t \in ThreadIds |-> t = <<"7","4">>]
  /\ pc = "idle"
  /\ inv = None
  /\ resolved = None
  /\ allThreads = <<>>
  /\ before = Undefined
  /\ fetchCount = 0
  /\ requests = NoRequests
  /\ calls = NoCalls
  /\ out = None
  /\ cachedTags = appliedTags
  /\ tasks = [i \in TaskIds |-> IdleTask]
  /\ request = None

sequential == <<pc, inv, resolved, allThreads, before, fetchCount, requests, calls, out,
                request>>

\* Lines 666-712: the arguments are parsed, the guild and the forum are looked
\* up, and the handler awaits guild.channels.fetch(threadId).
TaskCall(i, tagNames) ==
  /\ tasks[i].pc = "idle"
  /\ \E r \in {findForum(TheForum, Undefined)} :
       tasks' = [tasks EXCEPT ![i] =
                   IF r.channel.kind # "ok"
                   THEN [IdleTask EXCEPT !.pc = "done", !.tagNames = tagNames,
                                         !.out = r.channel,
                                         !.appliedAtCall = appliedTags[TheThread]]
                   ELSE [IdleTask EXCEPT !.pc = "threadFetch", !.tagNames = tagNames,
                                         !.guild = r.guild.val,
                                         !.forumChannel = r.channel.val,
                                         !.appliedAtCall = appliedTags[TheThread]]]
  /\ UNCHANGED <<world, appliedTags, archived, cachedTags, sequential>>

\* Lines 712-744, resumed with the fetched thread: the thread is checked, the
\* names are resolved, thread.appliedTags is read from the cached thread and
\* merged, and the handler awaits thread.setAppliedTags(newTagIds).
TaskMerge(i) ==
  /\ tasks[i].pc = "threadFetch"
  /\ LET me == tasks[i]
         t == guildChannelsFetch(me.guild, TheThread)
         rt == resolveTags(me.tagNames, availableTags[me.forumChannel.id])
         fail(e) == [me EXCEPT !.pc = "done", !.out = e]
     IN tasks' = [tasks EXCEPT ![i] =
          IF t.kind # "ok" THEN fail(ApiError(TheThread))
          ELSE IF t.val.type # "PublicThread" \/ t.val.parentId # me.forumChannel.id
          THEN fail(Err("ThreadNotInForum", TheThread, <<me.forumChannel.name>>, <<>>))
          ELSE IF Len(rt.notFoundTags) > 0
          THEN fail(Err("TagsNotFound", rt.notFoundTags,
                        Map(NameOf, availableTags[me.forumChannel.id]), <<>>))
          ELSE [me EXCEPT !.pc = "setAppliedTags",
                          !.tagIds = rt.tagIds,
                          !.newTagIds = mergeTags(cachedTags[TheThread], rt.tagIds),
                          !.overlapped = \E j \in TaskIds \ {i} :
                                            tasks[j].pc \in {"setAppliedTags", "answered"}]]
  /\ UNCHANGED <<world, appliedTags, archived, cachedTags, sequential>>

\* The platform carries out the request of setAppliedTags: the thread's
\* applied tags become the list of the request.
PlatformSetsTags(i) ==
  /\ tasks[i].pc = "setAppliedTags"
  /\ appliedTags' = [appliedTags EXCEPT ![TheThread] = tasks[i].newTagIds]
  /\ tasks' = [tasks EXCEPT ![i].pc = "answered"]
  /\ UNCHANGED <<world, archived, cachedTags, sequential>>

\* Lines 744-759, resumed with the answer: discord.js patches the cached thread
\* with the answer, and the handler returns the success text.
TaskResume(i) ==
  /\ tasks[i].pc = "answered"
  /\ cachedTags' = [cachedTags EXCEPT ![TheThread] = tasks[i].newTagIds]
  /\ tasks' = [tasks EXCEPT ![i].pc = "done",
                            ![i].out = [kind |-> "ok", thread |-> TheThread,
                                        applied |-> tasks[i].newTagIds]]
  /\ UNCHANGED <<world, appliedTags, archived, sequential>>

NextConcurrent ==
  \/ \E i \in TaskIds, names \in ConcurrentTagNames : TaskCall(i, names)
  \/ \E i \in TaskIds : TaskMerge(i)
  \/ \E i \in TaskIds : PlatformSetsTags(i)
  \/ \E i \in TaskIds : TaskResume(i)

SpecConcurrent == InitConcurrent /\ [][NextConcurrent]_vars

----------------------------------------------------------------------------
(* SpecValidation: calls of every tool, and of a tool the server does not  *)
(* have, with arguments that may be missing, of the wrong type or out of   *)
(* range, on the one cached guild.                                         *)

RawChannels == {Absent, Str(<<"1","0">>), Str(TheForum), Num(13)}
RawLimits == {Absent, Num(0), Num(1), Num(50), Num(51), Num(100), Num(101), Str(<<"5">>)}
RawUrls == {Absent, Str(<<"h",":","x">>), Str(<<"x">>)}
RawArgs ==
  {[NoArgs EXCEPT !.channel = c, !.limit = l, !.message = m, !.threadId = t,
                  !.tagNames = n, !.query = q, !.url = u] :
     c \in RawChannels, l \in RawLimits, m \in {Absent, Str(<<"m">>)},
     t \in {Absent, Str(TheThread)}, n \in {Absent, Arr(<< <<"A">> >>)},
     q \in {Absent, Str(<<"L","I">>)}, u \in RawUrls}
CalledNames == ToolNames \cup {"delete-message"}

InitValidation ==
  /\ guilds = <<TheGuild>>
  /\ remoteGuilds = {}
  /\ restAvailable = TRUE
  /\ channels = ChannelUniverse
  /\ availableTags = [f \in ForumIds |-> IF f = TheForum THEN ListedForumTags ELSE <<>>]
  /\ appliedTags = ListedAppliedTags
  /\ archived = [t \in ThreadIds |-> t = <<"7","4">>]
  /\ InitIdle

NextValidation ==
  \/ \E name \in CalledNames, args \in RawArgs : CallTool(name, args)
  \/ SearchArchivedBatch(<<>>)
  \/ Return

SpecValidation == InitValidation /\ [][NextValidation]_vars

----------------------------------------------------------------------------
(* Properties *)

Finished(tool) == pc = "done" /\ inv.tool = tool

ForumTools == {"read-forum-threads", "add-thread-tags", "list-threads", "search-threads"}
ChannelTools == {"send-message", "read-messages"}

\* The guilds client.guilds.fetch can return for an id: the platform's view.
KnownGuilds == Range(guilds) \cup (IF restAvailable THEN remoteGuilds ELSE {})

\* C1: send-message and read-messages with a server argument that designates
\* guild G and a channel argument that is the ID of a text channel of G succeed
\* on that channel of G, however many guilds the bot is in.
C1_ServerArgumentScopesChannel ==
  (pc = "done" /\ inv.tool \in ChannelTools /\ ~Falsy(inv.server) /\ restAvailable) =>
    \A g \in KnownGuilds, c \in Range(channels) :
      ( /\ g.id = inv.server
        /\ c.id = inv.channel /\ c.guildId = g.id /\ c.type = "GuildText" )
      => (out.kind = "ok" /\ out.guild = g.id /\ out.channel = c.id)

\* The tools that hand their server argument to findGuild.
PassesServer == pc = "done" /\ inv.tool \in ForumTools \cup {"unarchive-thread"}

NameMatchesOf(identifier) ==
  {g \in Range(guilds) : toLowerCase(g.name) = toLowerCase(identifier)}

\* C2: with a present identifier, findGuild returns the guild of that ID when
\* the ID lookup succeeds; otherwise zero guilds of that name (case-insensitive)
\* is a not-found error listing every guild name, one is that guild, several are
\* an ambiguity error listing the name and ID of each.
C2_FindGuildByIdThenName ==
  (PassesServer /\ ~Falsy(inv.server)) =>
    LET byId == {g \in KnownGuilds : g.id = inv.server}
        byName == NameMatchesOf(inv.server)
        r == resolved.guild
    IN /\ byId # {} => (r.kind = "ok" /\ r.val \in byId)
       /\ (byId = {} /\ byName = {}) =>
             /\ r.kind = "error" /\ r.code = "ServerNotFound"
             /\ Len(r.names) = Len(guilds)
             /\ \A i \in 1..Len(guilds) : r.names[i] = guilds[i].name
       /\ (byId = {} /\ Cardinality(byName) = 1) => (r.kind = "ok" /\ r.val \in byName)
       /\ (byId = {} /\ Cardinality(byName) > 1) =>
             /\ r.kind = "error" /\ r.code = "MultipleServersNamed"
             /\ Len(r.names) = Cardinality(byName) /\ Len(r.ids) = Len(r.names)
             /\ {<<r.names[i], r.ids[i]>> : i \in 1..Len(r.names)}
                  = {<<g.name, g.id>> : g \in byName}

\* Two cached guilds carry the same name, the name was given, and the error
\* lists both IDs.
C2_Witness ==
  /\ PassesServer /\ inv.server = <<"a">>
  /\ Len(guilds) = 2 /\ guilds[1].name = <<"a">> /\ guilds[2].name = <<"a">>
  /\ resolved.guild.kind = "error"
  /\ Range(resolved.guild.ids) = {guilds[1].id, guilds[2].id}

\* C3: without an identifier findGuild succeeds exactly when one guild is
\* cached, returning it; otherwise it fails listing the names of all cached
\* guilds; it never calls client.guilds.fetch.
C3_FindGuildWithoutIdentifier ==
  (pc = "done" /\ (inv.tool \in ChannelTools \/ Falsy(inv.server))) =>
    LET r == resolved.guild
    IN /\ r.kind = "ok" <=> Len(guilds) = 1
       /\ r.kind = "ok" => r.val = guilds[1]
       /\ r.kind # "ok" =>
            /\ r.kind = "error" /\ r.code = "MultipleServers"
            /\ Len(r.names) = Len(guilds)
            /\ \A i \in 1..Len(guilds) : r.names[i] = guilds[i].name
       /\ calls.guildsFetch = 0

\* No identifier, two cached guilds: the failure names both.
C3_Witness ==
  /\ Finished("list-threads") /\ inv.server = Undefined
  /\ Len(guilds) = 2
  /\ resolved.guild.kind = "error"
  /\ Len(resolved.guild.names) = 2

\* C4: a channel a resolution returns is a channel of the guild findGuild
\* returned for the invocation, and of the kind the tool needs: a text channel
\* or a thread for findChannel, a forum for the forum tools.
C4_ResolvedChannelInGuildAndOfKind ==
  (inv # None /\ inv.tool \in ChannelTools \cup ForumTools /\ resolved.channel.kind = "ok") =>
    /\ resolved.guild.kind = "ok"
    /\ resolved.channel.val.guildId = resolved.guild.val.id
    /\ resolved.channel.val \in Range(channels)
    /\ inv.tool \in ChannelTools => resolved.channel.val.type \in {"GuildText", "PublicThread"}
    /\ inv.tool \in ForumTools => resolved.channel.val.type = "GuildForum"

\* A forum found by name ("#b") in guild 2, which also has a text channel "b",
\* while guild 1, cached too, has forums of that name.
C4_Witness ==
  /\ Finished("list-threads") /\ inv.channel = <<"#","b">>
  /\ Len(guilds) = 2
  /\ resolved.channel.kind = "ok" /\ resolved.channel.val.id = <<"2","1">>

\* The requested names that match no tag of the forum, case-insensitively.
Unmatched(tagNames, tags) ==
  {tagNames[i] : i \in {k \in 1..Len(tagNames) :
      \A j \in 1..Len(tags) : toLowerCase(tags[j].name) # toLowerCase(tagNames[k])}}

\* The thread argument designates a public thread of the resolved forum.
ThreadOfForum ==
  \E c \in Range(channels) :
    /\ c.id = inv.threadId /\ c.type = "PublicThread"
    /\ c.guildId = resolved.guild.val.id /\ c.parentId = resolved.channel.val.id

TagStep == Finished("add-thread-tags") /\ resolved.channel.kind = "ok"

\* C5 as claimed: whenever a requested name matches no tag of the resolved
\* forum, the call fails with the error that lists every unmatched name and
\* every available tag name, and setAppliedTags is not called.
C5_UnmatchedTagErrorAlways ==
  (TagStep /\ Unmatched(inv.tagNames, availableTags[resolved.channel.val.id]) # {}) =>
    LET tags == availableTags[resolved.channel.val.id]
    IN /\ out.kind = "error" /\ out.code = "TagsNotFound"
       /\ Range(out.ident) = Unmatched(inv.tagNames, tags)
       /\ Range(out.names) = {tags[j].name : j \in 1..Len(tags)}
       /\ calls.setAppliedTags = 0
       /\ appliedTags = inv.appliedBefore

\* C5 amended: with an unmatched name the call always fails without calling
\* setAppliedTags and leaves the applied tags as they were; when the thread ID
\* designates a thread of the forum, the error lists every unmatched name and
\* the name of every available tag of that forum.
C5_AllOrNothing ==
  (TagStep /\ Unmatched(inv.tagNames, availableTags[resolved.channel.val.id]) # {}) =>
    LET tags == availableTags[resolved.channel.val.id]
    IN /\ out.kind = "error"
       /\ calls.setAppliedTags = 0
       /\ appliedTags = inv.appliedBefore
       /\ ThreadOfForum =>
            /\ out.code = "TagsNotFound"
            /\ Range(out.ident) = Unmatched(inv.tagNames, tags)
            /\ Range(out.names) = {tags[j].name : j \in 1..Len(tags)}
            /\ Len(out.names) = Len(tags)

\* Three names requested on a thread of the forum, one of them ("c", a tag of
\* another forum) unmatched: the error names it and both tags of the forum.
C5_Witness ==
  /\ TagStep /\ ThreadOfForum
  /\ inv.tagNames = <<<<"A">>, <<"c">>, <<"b">>>>
  /\ Len(availableTags[TheForum]) = 2
  /\ out.kind = "error" /\ out.ident = <<<<"c">>>>
  /\ out.names = <<<<"a">>, <<"B">>>>

\* The threads of the resolved forum that are not archived: what fetchActive
\* returned at the start of the invocation.
ActiveOfForum ==
  {c.id : c \in {x \in Range(channels) :
     x.type = "PublicThread" /\ x.parentId = resolved.channel.val.id /\ ~archived[x.id]}}

NoDuplicates(s) == \A i, j \in 1..Len(s) : i # j => s[i] # s[j]

SearchDone ==
  Finished("search-threads") /\ resolved.channel.kind = "ok" /\ inv.includeArchived

\* C6: when batch k (k <= 10) is the first empty one, exactly k fetchArchived
\* requests were issued, and allThreads holds the active threads and the threads
\* of batches 1..k-1, each id once.
C6_StopsAtFirstEmptyBatch ==
  (SearchDone /\ requests.emptyAt > 0) =>
    /\ requests.emptyAt <= maxFetches
    /\ requests.sent = requests.emptyAt
    /\ requests.answered = requests.emptyAt
    /\ calls.fetchArchived = requests.emptyAt
    /\ Range(allThreads) = ActiveOfForum \cup requests.received
    /\ NoDuplicates(allThreads)

\* The fourth batch is the first empty one; the three before it brought every
\* thread, one of them active as well.
C6_Witness ==
  /\ SearchDone /\ requests.emptyAt = 4 /\ requests.sent = 4
  /\ requests.received = PagedThreads
  /\ <<"7","2">> \in ActiveOfForum
  /\ Len(allThreads) = 3

\* C7: the loop never issues an eleventh request, whatever the batches hold;
\* with no empty batch it issues exactly ten and the call still succeeds; the
\* archived threads collected are at most (batches received) x (batch size),
\* hence at most 10 x 100.
C7_AtMostTenRequests ==
  (inv # None /\ inv.tool = "search-threads") =>
    /\ requests.sent <= maxFetches
    /\ calls.fetchArchived = requests.sent
    /\ pc = "archived" => (requests.answered < maxFetches /\ requests.sent = requests.answered + 1)
    /\ (SearchDone /\ requests.emptyAt = 0 /\ ~requests.failed) =>
          (requests.sent = maxFetches /\ fetchCount = maxFetches /\ out.kind = "ok")
    /\ Cardinality(requests.received) <= fetchCount * Min(MaxBatchLen, archivedLimit)
    /\ Cardinality(requests.received) <= maxFetches * archivedLimit

\* Ten batches, none empty: ten requests and a result.
C7_Witness ==
  /\ SearchDone /\ requests.emptyAt = 0 /\ requests.sent = 10
  /\ out.kind = "ok"

\* C8: list-threads with includeArchived pages through the archive: it stops
\* only at an empty batch or at the batch cap.
C8_ListThreadsPaginates ==
  (Finished("list-threads") /\ resolved.channel.kind = "ok" /\ inv.includeArchived
     /\ ~requests.failed) =>
    (requests.emptyAt > 0 \/ requests.sent = maxFetches)

ThreadName(t) == (CHOOSE c \in Range(channels) : c.id = t).name

IsSubstring(q, n) == \E i \in 1..(Len(n)+1), j \in 0..Len(n) : SubSeq(n, i, j) = q

\* C9: search-threads keeps a collected thread exactly when its lowercased name
\* equals (exactMatch) or contains (otherwise) the lowercased query;
\* list-threads drops no thread before it sorts and truncates.
C9_FilterByName ==
  /\ (Finished("search-threads") /\ out.kind = "ok") =>
       /\ \A t \in Range(allThreads) :
            t \in Range(out.filtered) <=>
              IF inv.exactMatch
              THEN toLowerCase(ThreadName(t)) = toLowerCase(inv.query)
              ELSE IsSubstring(toLowerCase(inv.query), toLowerCase(ThreadName(t)))
       /\ Range(out.filtered) \subseteq Range(allThreads)
       /\ out.totalSearched = Len(out.filtered)
  /\ (Finished("list-threads") /\ out.kind = "ok") =>
       /\ Len(out.threads) = Min(inv.limit, Len(allThreads))
       /\ Range(out.threads) \subseteq Range(allThreads)
       /\ inv.limit >= Len(allThreads) => Range(out.threads) = Range(allThreads)

\* Query "LI" with exactMatch keeps "Li" and drops "Li2" and "li-", all three
\* having been collected.
C9_Witness ==
  /\ Finished("search-threads") /\ out.kind = "ok"
  /\ inv.exactMatch /\ inv.query = <<"L","I">>
  /\ PagedThreads \subseteq Range(allThreads)
  /\ out.filtered = <<<<"7","1">>>>

\* The threads that survive to the sort, in their order of collection.
Survivors == IF inv.tool = "search-threads" THEN out.filtered ELSE allThreads

\* the index of x in s, 0 when s does not hold it
Position(s, x) == IF x \in Range(s) THEN CHOOSE i \in 1..Len(s) : s[i] = x ELSE 0

\* x comes before y in the order "createdTimestamp descending, ties in the
\* order of collection"
ComesBefore(x, y, collected) ==
  \/ createdTimestamp(x) > createdTimestamp(y)
  \/ /\ createdTimestamp(x) = createdTimestamp(y)
     /\ Position(collected, x) < Position(collected, y)

\* C10: the result of list-threads and search-threads is the first
\* min(limit, n) of the n surviving threads ordered by createdTimestamp
\* descending, threads of equal createdTimestamp in their order of collection.
C10_SortedStableAndLimited ==
  (pc = "done" /\ inv.tool \in {"list-threads", "search-threads"} /\ out.kind = "ok") =>
    LET sv == Survivors
        result == out.threads
    IN /\ Len(result) = Min(inv.limit, Len(sv))
       /\ Len(result) <= inv.limit
       /\ NoDuplicates(result)
       /\ Range(result) \subseteq Range(sv)
       /\ \A i, j \in 1..Len(result) : i < j => ComesBefore(result[i], result[j], sv)
       /\ \A x \in Range(result), y \in Range(sv) \ Range(result) : ComesBefore(x, y, sv)

\* Threads 7,3 and 7,2 have the same createdTimestamp and were collected in
\* that order: the result has 7,1 (newer) first, then 7,3, then 7,2.
C10_Witness ==
  /\ Finished("search-threads") /\ out.kind = "ok"
  /\ <<"7","3">> \in Range(allThreads)
  /\ Position(allThreads, <<"7","3">>) < Position(allThreads, <<"7","2">>)
  /\ out.threads = << <<"7","1">>, <<"7","3">>, <<"7","2">> >>

\* C11: unarchive-thread on a thread that is not archived reports that the
\* thread is already active, calls setArchived not at all and changes no
\* archived flag; on an archived thread it calls setArchived(false, reason)
\* exactly once, and its success report comes after that call took effect.
C11_UnarchiveOnlyWhenArchived ==
  (Finished("unarchive-thread") /\ resolved.channel.kind = "ok"
     /\ resolved.channel.val.type = "PublicThread") =>
    IF ~inv.archivedBefore[inv.threadId]
    THEN /\ out.kind = "ok" /\ out.alreadyActive
         /\ calls.setArchived = 0
         /\ archived = inv.archivedBefore
    ELSE /\ calls.setArchived = 1
         /\ out.kind = "ok" =>
              /\ ~out.alreadyActive
              /\ out.setArchived = <<FALSE, inv.reason>>
              /\ archived = [inv.archivedBefore EXCEPT ![inv.threadId] = FALSE]
         /\ out.kind # "ok" => archived = inv.archivedBefore

\* Thread 7,4 was archived and has been unarchived with a reason; the next
\* call on it would find it active.
C11_Witness ==
  /\ Finished("unarchive-thread") /\ inv.threadId = <<"7","4">>
  /\ inv.archivedBefore[<<"7","4">>] /\ ~archived[<<"7","4">>]
  /\ out.kind = "ok" /\ out.setArchived = <<FALSE, <<"r">>>>
  /\ calls.setArchived = 1

\* The same thread, unarchived by an earlier call, is reported as already
\* active.
C11_WitnessActive ==
  /\ Finished("unarchive-thread") /\ inv.threadId = <<"7","4">>
  /\ ~inv.archivedBefore[<<"7","4">>]
  /\ out.kind = "ok" /\ out.alreadyActive /\ calls.setArchived = 0

\* C12: once a fetchArchived request of search-threads has been rejected, the
\* invocation is over with an error; the rejected request is the last one
\* issued, and the outcome holds no thread, whatever had been collected.
C12_RejectedBatchEndsSearch ==
  (inv # None /\ inv.tool = "search-threads" /\ requests.failed) =>
    /\ pc = "done"
    /\ out.kind = "error" /\ out.code = "DiscordAPIError"
    /\ requests.sent = requests.answered + 1
    /\ calls.fetchArchived = requests.sent
    /\ requests.sent <= maxFetches

\* The third request is rejected after two batches brought threads.
C12_Witness ==
  /\ Finished("search-threads") /\ requests.failed
  /\ requests.answered = 2 /\ requests.sent = 3
  /\ requests.received # {} /\ Len(allThreads) >= 2
  /\ out.kind = "error"

\* The errors the resolvers and the thread lookups construct.
ResolutionErrors ==
  {"MultipleServers", "ServerNotFound", "MultipleServersNamed",
   "ChannelNotFound", "MultipleChannels", "NotTextChannelOrThread",
   "ForumNotFound", "MultipleForums", "ThreadNotInForum", "NotAThread"}

\* The identifier the failed resolution step was given.
Attempted(code) ==
  CASE code \in {"ServerNotFound", "MultipleServersNamed"} -> {inv.server}
    [] code \in {"ChannelNotFound", "MultipleChannels", "NotTextChannelOrThread",
                 "ForumNotFound", "MultipleForums"} -> {inv.channel}
    [] code \in {"ThreadNotInForum", "NotAThread"} -> {inv.threadId}
    [] OTHER -> {Undefined}

CachedOfGuild(type) ==
  {c \in Range(channels) : c.guildId = resolved.guild.val.id /\ c.cached /\ c.type = type}

\* The names a caller could use instead, in the cache as it is.
Alternatives(code) ==
  CASE code \in {"MultipleServers", "ServerNotFound", "MultipleServersNamed"} ->
         {g.name : g \in Range(guilds)}
    [] code \in {"ChannelNotFound", "MultipleChannels", "NotTextChannelOrThread"} ->
         {c.name : c \in CachedOfGuild("GuildText")}
    [] code \in {"ForumNotFound", "MultipleForums"} ->
         {c.name : c \in CachedOfGuild("GuildForum")}
    [] code = "ThreadNotInForum" ->
         {c.name : c \in {t \in CachedOfGuild("PublicThread") :
                            t.parentId = resolved.channel.val.id}}
    [] OTHER -> {c.name : c \in CachedOfGuild("PublicThread")}

\* C13: an error of guild, channel, forum or thread resolution carries the
\* identifier that was tried and names valid alternatives of the cache, at
\* least one whenever the cache holds one; this includes an ID that designates
\* a channel of the wrong kind or guild and a thread ID that is not a thread
\* of the forum.
C13_ErrorsNameIdentifierAndAlternatives ==
  (pc = "done" /\ out.kind = "error" /\ out.code \in ResolutionErrors) =>
    /\ out.ident \in Attempted(out.code)
    /\ Range(out.names) \subseteq Alternatives(out.code)
    /\ Alternatives(out.code) # {} => out.names # <<>>

\* The error kinds of the taxonomy, by the message the code builds.
ErrorKind(code) ==
  CASE code \in {"ServerNotFound", "ChannelNotFound", "ForumNotFound",
                 "NotTextChannelOrThread"} -> "NotFound"
    [] code \in {"MultipleServers", "MultipleServersNamed", "MultipleChannels",
                 "MultipleForums"} -> "AmbiguousTarget"
    [] code = "DiscordAPIError" -> "ExternalApiError"
    [] OTHER -> "Unclassified"

ErrorKinds == {"NotFound", "AmbiguousTarget", "ValidationError", "ExternalApiError"}

\* r is one entity of the pool, or one error of the taxonomy.
OneOutcome(r, pool) ==
  \/ r.kind = "ok" /\ r.val \in pool
  \/ r.kind = "error" /\ ErrorKind(r.code) \in ErrorKinds

\* C14: for every identifier (absent, empty, an ID, a name), every guild
\* cache and every answer of the remote lookup, guild resolution ends in one
\* guild or one classified error, and so does channel resolution; a rejected
\* lookup never escapes the resolver as such. The handler goes on with the
\* entity exactly when there is one: after a resolution error it reports that
\* error and has issued no call on a channel.
C14_ResolutionIsTotal ==
  (pc = "done" /\ inv.tool \in ChannelTools \cup ForumTools) =>
    /\ OneOutcome(resolved.guild, Range(guilds) \cup remoteGuilds)
    /\ OneOutcome(resolved.channel, Range(channels))
    /\ resolved.guild.kind = "error" =>
          /\ resolved.channel = resolved.guild
          /\ calls.channelsFetch = 0
    /\ resolved.channel.kind = "error" =>
          /\ out = resolved.channel
          /\ calls.send + calls.messagesFetch + calls.fetchActive
               + calls.fetchArchived + calls.setAppliedTags = 0
    /\ resolved.channel.kind = "ok" => resolved.guild.kind = "ok"

\* The ID lookup of a guild that is not cached was not answered, and the
\* resolver still ended in one classified error.
C14_Witness ==
  /\ Finished("list-threads") /\ ~restAvailable
  /\ inv.server = <<"3">> /\ remoteGuilds # {}
  /\ resolved.guild.kind = "error" /\ ErrorKind(resolved.guild.code) = "NotFound"

\* n matches s when they are equal in lower case, or when s starts with '#'
\* and n equals the rest of s in lower case.
LeadingHashMatch(n, s) ==
  \/ toLowerCase(n) = toLowerCase(s)
  \/ /\ s # <<>> /\ s[1] = "#"
     /\ toLowerCase(n) = toLowerCase(SubSeq(s, 2, Len(s)))

FoundByName ==
  /\ pc = "done" /\ inv.tool \in ChannelTools \cup ForumTools
  /\ resolved.channel.kind = "ok" /\ resolved.channel.val.id # inv.channel

\* C15: a channel or forum found by name matches the identifier as typed or
\* with one leading '#' removed (both in lower case), and a not-found error
\* means that no cached channel of the kind does; in particular "b#" does not
\* find the channel "b".
C15_OnlyLeadingHashStripped ==
  /\ FoundByName => LeadingHashMatch(resolved.channel.val.name, inv.channel)
  /\ (pc = "done" /\ out.kind = "error" /\ out.code = "ChannelNotFound") =>
        \A c \in CachedOfGuild("GuildText") : ~LeadingHashMatch(c.name, inv.channel)
  /\ (pc = "done" /\ out.kind = "error" /\ out.code = "ForumNotFound") =>
        \A c \in CachedOfGuild("GuildForum") : ~LeadingHashMatch(c.name, inv.channel)

CandidateErrors == {"ChannelNotFound", "MultipleChannels", "ForumNotFound", "MultipleForums"}

\* The kind of channel the failed lookup was after.
RequiredKind(code) ==
  IF code \in {"ChannelNotFound", "MultipleChannels"} THEN "GuildText" ELSE "GuildForum"

\* C16: the candidates of a channel not-found error are exactly the cached
\* channels of the resolved guild that have the required kind (text channels
\* for findChannel, forums for the forum tools), and the candidates of an
\* ambiguity error are at least two of them, each with its own id; no channel
\* of another kind or guild is listed.
C16_CandidatesOfKindAndGuild ==
  (pc = "done" /\ out.kind = "error" /\ out.code \in CandidateErrors) =>
    LET pool == CachedOfGuild(RequiredKind(out.code))
        inOrder == SelectSeq(channels, LAMBDA c : c \in pool)
    IN /\ resolved.guild.kind = "ok"
       /\ out.code \in {"ChannelNotFound", "ForumNotFound"} =>
            /\ Len(out.names) = Len(inOrder)
            /\ \A i \in 1..Len(inOrder) : out.names[i] = inOrder[i].name
       /\ out.code \in {"MultipleChannels", "MultipleForums"} =>
            /\ Len(out.ids) >= 2 /\ Len(out.names) = Len(out.ids)
            /\ \A i \in 1..Len(out.ids) :
                 \E c \in pool : c.id = out.ids[i] /\ c.name = out.names[i]
            /\ \A i, j \in 1..Len(out.ids) : i # j => out.ids[i] # out.ids[j]

\* Forum "c" is not in the cache of guild 1: the error lists the four cached
\* forums of guild 1 and none of its text channels, none of guild 2's forums.
C16_Witness ==
  /\ Finished("list-threads") /\ inv.channel = <<"c">>
  /\ Len(guilds) = 2 /\ resolved.guild.kind = "ok" /\ resolved.guild.val.id = <<"1">>
  /\ out.kind = "error" /\ out.code = "ForumNotFound"
  /\ out.names = << <<"a">>, <<"b">>, <<"B">>, <<"1","0">> >>

\* The ID lookup of findGuild was tried and was not answered: the guild is
\* not cached and the REST API is not available.
GuildLookupUnanswered ==
  /\ PassesServer /\ ~Falsy(inv.server)
  /\ ~restAvailable
  /\ \A g \in Range(guilds) : g.id # inv.server

\* C17: when the ID lookup of findGuild fails otherwise than with not-found,
\* no guild is resolved by name: the invocation ends with the API error.
C17_NameFallbackOnlyOnNotFound ==
  GuildLookupUnanswered =>
    /\ resolved.guild.kind = "error"
    /\ ErrorKind(resolved.guild.code) = "ExternalApiError"
    /\ out = resolved.guild

\* The kinds the ID lookup of the tool accepts, and the kind its name search
\* looks among.
KindsById == IF inv.tool \in ChannelTools THEN {"GuildText", "PublicThread"} ELSE {"GuildForum"}
KindByName == IF inv.tool \in ChannelTools THEN "GuildText" ELSE "GuildForum"

\* The channel the ID lookup yields that is in the resolved guild and of the
\* required kind, if there is one.
GoodIdHit ==
  {c \in Range(channels) :
     /\ c.id = inv.channel /\ c.guildId = resolved.guild.val.id /\ c.type \in KindsById
     /\ (c.cached \/ restAvailable)}

NameHits == {c \in CachedOfGuild(KindByName) : NameMatches(c.name, inv.channel)}

\* C18: when the ID lookup yields no channel of the resolved guild and of the
\* required kind, the outcome is that of the name search among the cached
\* channels of the kind: the one match, a not-found error when there is none,
\* an ambiguity error when there are several; for findChannel as for the
\* forum lookups.
C18_NameSearchAfterUnusableIdHit ==
  (pc = "done" /\ inv.tool \in ChannelTools \cup ForumTools
     /\ resolved.guild.kind = "ok" /\ GoodIdHit = {}) =>
    LET r == resolved.channel
    IN /\ Cardinality(NameHits) = 1 => (r.kind = "ok" /\ r.val \in NameHits)
       /\ NameHits = {} =>
            (r.kind = "error" /\ r.code \in {"ChannelNotFound", "ForumNotFound"})
       /\ Cardinality(NameHits) > 1 =>
            (r.kind = "error" /\ r.code \in {"MultipleChannels", "MultipleForums"})

TagsSet == Finished("add-thread-tags") /\ out.kind = "ok"

\* The ids of the forum's tags that the requested names designate.
RequestedIds ==
  LET tags == availableTags[resolved.channel.val.id]
  IN {findTag(tags, inv.tagNames[i]).id : i \in 1..Len(inv.tagNames)}

\* C19: on success the list given to setAppliedTags, which is then the
\* thread's applied tags, has no id twice and holds exactly the ids applied
\* before and the ids of the requested names; nothing applied before is gone.
C19_TagsMergedWithoutDuplicates ==
  TagsSet =>
    LET was == inv.appliedBefore[inv.threadId]
    IN /\ calls.setAppliedTags = 1
       /\ appliedTags[inv.threadId] = out.applied
       /\ NoDuplicates(out.applied)
       /\ Range(out.applied) = Range(was) \cup RequestedIds
       /\ Range(was) \subseteq Range(out.applied)
       /\ \A t \in ThreadIds \ {inv.threadId} : appliedTags[t] = inv.appliedBefore[t]

\* "A", "b", "A" requested on thread 7,1, which had tag t2 ("B") applied: the
\* result is t2 and t1, each once.
C19_Witness ==
  /\ TagsSet /\ inv.threadId = <<"7","1">>
  /\ inv.tagNames = << <<"A">>, <<"b">>, <<"A">> >>
  /\ inv.appliedBefore[<<"7","1">>] = << <<"t","2">> >>
  /\ out.applied = << <<"t","2">>, <<"t","1">> >>

\* C20: the first fetchArchived request of search-threads carries no
\* `before`; every later one carries the id of the last thread of the batch
\* received just before it; and a request is pending only when all earlier
\* ones have been answered, one request at a time.
C20_CursorChain ==
  (inv # None /\ inv.tool = "search-threads") =>
    /\ pc = "archived" =>
          /\ requests.sent = requests.answered + 1
          /\ ~requests.failed
          /\ requests.sent = 1 => requests.cursor = Undefined
          /\ requests.sent > 1 =>
                /\ requests.lastBatch # <<>>
                /\ requests.cursor = requests.lastBatch[Len(requests.lastBatch)]
    /\ pc = "done" =>
          \/ requests.answered = requests.sent /\ ~requests.failed
          \/ requests.answered = requests.sent - 1 /\ requests.failed

\* The third request is pending: it carries the last id of the second batch
\* (7,1), not its first (7,3), and not the cursor of the second request.
C20_Witness ==
  /\ pc = "archived" /\ requests.sent = 3 /\ requests.answered = 2
  /\ requests.lastBatch = << <<"7","3">>, <<"7","1">> >>
  /\ requests.cursor = <<"7","1">>

\* A messages.fetch of the running read-forum-threads was rejected.
MessagesRejected == pc = "done" /\ inv.tool = "read-forum-threads" /\ inv.rejectedAt > 0

ListingTools == {"list-threads", "search-threads", "read-forum-threads"}

\* The tag of the forum that has this id, if the forum has one.
ForumTagsWithId(tagId) ==
  LET tags == availableTags[resolved.channel.val.id]
  IN {tags[i] : i \in {k \in 1..Len(tags) : tags[k].id = tagId}}

\* C21: list-threads, search-threads and read-forum-threads give each thread
\* they return a tag list as long as the thread's appliedTags and in their
\* order: an id the forum has yields that tag's id, name and emoji (id and
\* name of the emoji, or null), an id the forum does not have yields the id
\* with the name 'Unknown Tag' and a null emoji. No thread makes the call fail.
C21_TagProjection ==
  (pc = "done" /\ inv.tool \in ListingTools /\ resolved.channel.kind = "ok"
     /\ restAvailable /\ ~requests.failed /\ ~MessagesRejected) =>
    /\ out.kind = "ok"
    /\ Len(out.tags) = Len(out.threads)
    /\ \A i \in 1..Len(out.threads) :
         LET applied == appliedTags[out.threads[i]]
             p == out.tags[i]
         IN /\ Len(p) = Len(applied)
            /\ \A k \in 1..Len(applied) :
                 /\ p[k].id = applied[k]
                 /\ IF ForumTagsWithId(applied[k]) = {}
                    THEN p[k].name = UnknownTag /\ p[k].emoji = Null
                    ELSE \E tag \in ForumTagsWithId(applied[k]) :
                           /\ p[k].name = tag.name
                           /\ p[k].emoji = emojiOf(tag.id)

\* Thread 7,1 is returned with its three tags: t2 without emoji, the
\* placeholder for t7, t1 with its emoji.
C21_Witness ==
  /\ Finished("search-threads") /\ out.kind = "ok"
  /\ Len(out.threads) >= 1 /\ out.threads[1] = <<"7","1">>
  /\ Len(out.tags[1]) = 3
  /\ out.tags[1][1] = [id |-> <<"t","2">>, name |-> <<"B">>, emoji |-> Null]
  /\ out.tags[1][2] = [id |-> <<"t","7">>, name |-> UnknownTag, emoji |-> Null]
  /\ out.tags[1][3].emoji = [id |-> <<"e","1">>, name |-> <<"x">>]

\* The calls that change the platform, and the fetches of threads and messages.
MutatingCalls == calls.send + calls.setAppliedTags + calls.setArchived
ThreadAndMessageFetches == calls.fetchActive + calls.fetchArchived + calls.messagesFetch

\* The running invocation fetched a thread by id and the fetch was rejected.
ThreadFetchRejected ==
  /\ pc = "done" /\ inv.tool \in {"add-thread-tags", "unarchive-thread"}
  /\ resolved.guild.kind = "ok"
  /\ inv.tool = "add-thread-tags" => resolved.channel.kind = "ok"
  /\ guildChannelsFetch(resolved.guild.val, inv.threadId).kind = "rejected"

PlatformUnchanged ==
  /\ inv.tool = "add-thread-tags" => appliedTags = inv.appliedBefore
  /\ inv.tool = "unarchive-thread" => archived = inv.archivedBefore

\* C22: no remote call is retried. An invocation issues send, setAppliedTags
\* and setArchived at most once each; when that call is rejected, or a fetch
\* of threads (fetchActive, fetchArchived, the thread by id) or of messages
\* is, the invocation ends with the API error, the rejected call is the last
\* remote call it issued, and the platform is as it was.
C22_NoRetries ==
  /\ calls.send <= 1 /\ calls.setAppliedTags <= 1 /\ calls.setArchived <= 1
  /\ MutatingCalls <= 1
  /\ (pc = "done" /\ ~restAvailable) =>
       /\ ThreadAndMessageFetches + MutatingCalls <= 1
       /\ ThreadAndMessageFetches + MutatingCalls = 1 =>
            /\ out.kind = "error" /\ out.code = "DiscordAPIError"
            /\ PlatformUnchanged
  /\ ThreadFetchRejected =>
       /\ out.kind = "error" /\ out.code = "DiscordAPIError"
       /\ ThreadAndMessageFetches + MutatingCalls = 0
       /\ PlatformUnchanged
  /\ MessagesRejected =>
       /\ out.kind = "error" /\ out.code = "DiscordAPIError"
       /\ calls.fetchActive = 1 /\ calls.messagesFetch = inv.rejectedAt
       /\ MutatingCalls = 0
  /\ (pc = "done" /\ requests.failed) =>
       /\ out.kind = "error" /\ out.code = "DiscordAPIError"
       /\ calls.fetchArchived = requests.sent /\ requests.sent = requests.answered + 1
       /\ MutatingCalls = 0

\* setArchived was issued once and rejected: the thread is still archived.
C22_Witness ==
  /\ Finished("unarchive-thread") /\ ~restAvailable
  /\ calls.setArchived = 1 /\ out = ApiError(inv.threadId)
  /\ archived[inv.threadId]

\* The messages.fetch of the second of three threads was rejected: the third
\* thread's messages were not asked for.
C22_WitnessMessages ==
  /\ MessagesRejected /\ inv.rejectedAt = 2 /\ calls.messagesFetch = 2
  /\ Len(fetchActive(resolved.channel.val)) = 3

BothSucceeded ==
  /\ DOMAIN tasks = TaskIds
  /\ \A i \in TaskIds : tasks[i].pc = "done" /\ tasks[i].out.kind = "ok"

\* C23: once two add-thread-tags invocations on the same thread have both
\* succeeded, however their steps interleaved, the thread's applied tags hold
\* the tags each of them requested and the tags applied when each was called.
C23_NoLostUpdate ==
  BothSucceeded =>
    \A i \in TaskIds :
      /\ Range(tasks[i].tagIds) \subseteq Range(appliedTags[TheThread])
      /\ Range(tasks[i].appliedAtCall) \subseteq Range(appliedTags[TheThread])

\* When neither invocation read thread.appliedTags while the other's
\* setAppliedTags was unanswered, nothing is lost.
C23_NothingLostWithoutOverlap ==
  (BothSucceeded /\ \A i \in TaskIds : ~tasks[i].overlapped) =>
    \A i \in TaskIds :
      /\ Range(tasks[i].tagIds) \subseteq Range(appliedTags[TheThread])
      /\ Range(tasks[i].appliedAtCall) \subseteq Range(appliedTags[TheThread])

\* The collected threads whose name matches the query of the invocation.
Matching ==
  {t \in Range(allThreads) :
     IF inv.exactMatch
     THEN toLowerCase(ThreadName(t)) = toLowerCase(inv.query)
     ELSE IsSubstring(toLowerCase(inv.query), toLowerCase(ThreadName(t)))}

\* C24: in the result of search-threads totalSearched is the number of
\* threads collected (active and archived, before the name filter),
\* totalFound the number of them that match the query, so totalFound is at
\* most totalSearched, and min(limit, totalFound) threads are returned.
C24_SearchTotals ==
  (Finished("search-threads") /\ out.kind = "ok") =>
    /\ out.totalSearched = Len(allThreads)
    /\ out.totalFound = Cardinality(Matching)
    /\ out.totalFound <= out.totalSearched
    /\ Len(out.threads) = Min(inv.limit, out.totalFound)

\* What the code reports: totalSearched is the number of matching threads,
\* totalFound the number of returned threads.
C24_TotalsAsComputed ==
  (Finished("search-threads") /\ out.kind = "ok") =>
    /\ out.totalSearched = Cardinality(Matching)
    /\ out.totalFound = Len(out.threads)
    /\ out.totalFound = Min(inv.limit, Cardinality(Matching))
    /\ out.totalFound <= out.totalSearched

\* The fields a call of the tool must carry, and the range of its limit.
MustCarry(name) ==
  CASE name = "send-message" -> {"channel", "message"}
    [] name \in {"read-messages", "read-forum-threads", "list-threads"} -> {"channel"}
    [] name = "download-attachment" -> {"url"}
    [] name = "add-thread-tags" -> {"channel", "threadId", "tagNames"}
    [] name = "search-threads" -> {"channel", "query"}
    [] name = "unarchive-thread" -> {"threadId"}

LimitRange(name) ==
  CASE name \in {"read-messages", "list-threads", "search-threads"} -> 1..100
    [] name = "read-forum-threads" -> 1..50
    [] OTHER -> {}

\* The arguments violate the schema of the tool: a required field is missing
\* or not of its type, or a limit is given that is no number of the range.
Violates(name, args) ==
  \/ \E f \in MustCarry(name) :
        \/ args[f].type # (IF f = "tagNames" THEN "array" ELSE "string")
        \/ f = "url" /\ ~IsUrl(args[f].str)
  \/ /\ LimitRange(name) # {}
     /\ args.limit.type # "undefined"
     /\ (args.limit.type # "number" \/ args.limit.num \notin LimitRange(name))

\* No guild or channel was looked up and no remote call was issued.
NothingIssued ==
  /\ calls = NoCalls
  /\ resolved = None
  /\ requests = NoRequests
  /\ allThreads = <<>>

\* C25: a call whose arguments violate the schema of its tool ends with the
\* 'Invalid arguments' error, and a call of a tool the server does not have
\* ends with its error, before any lookup, fetch or mutating call.
C25_ValidationFirst ==
  (pc # "idle" /\ request # None) =>
    IF request.name \notin ToolNames
    THEN /\ pc = "done" /\ out.kind = "error" /\ out.code = "UnknownTool"
         /\ NothingIssued
    ELSE Violates(request.name, request.args) =>
         /\ pc = "done" /\ out.kind = "error" /\ out.code = "InvalidArguments"
         /\ NothingIssued

\* list-threads on an existing forum with limit 101: refused for `limit`.
C25_Witness ==
  /\ pc = "done" /\ request # None
  /\ request.name = "list-threads"
  /\ request.args.channel = Str(TheForum) /\ request.args.limit = Num(101)
  /\ out.kind = "error" /\ out.code = "InvalidArguments" /\ out.names = <<"limit">>
  /\ calls = NoCalls

\* send-message without `message` to an existing text channel: refused.
C25_WitnessMissing ==
  /\ pc = "done" /\ request # None
  /\ request.name = "send-message"
  /\ request.args.channel = Str(<<"1","0">>) /\ request.args.message = Absent
  /\ out.kind = "error" /\ out.names = <<"message">> /\ calls.send = 0

\* A tool the server does not have.
C25_WitnessUnknownTool ==
  /\ pc = "done" /\ request # None
  /\ request.name = "delete-message" /\ out.kind = "error" /\ out.code = "UnknownTool"

\* A call with arguments the schema accepts does issue calls.
C25_WitnessValid ==
  /\ pc = "done" /\ request # None
  /\ request.name = "list-threads" /\ request.args.limit = Num(100)
  /\ out.kind = "ok" /\ calls.fetchActive = 1

====
